---- MODULE Spec2Model ----
(* A model of the pylogop dispatch engine: logop.logging.Logging together    *)
(* with the registration protocol of logop.stream.StandardOutputStream.      *)
(* One engine, several caller threads and, in asynchronous mode, the         *)
(* engine's worker thread.  Every critical section of the code (a `with      *)
(* lock:` block that calls nothing that can block) is one atomic action;     *)
(* the places where the code releases every lock are the points between     *)
(* actions.  _lock_stream is held across the whole per-record loop over the  *)
(* streams, so it is modelled as an explicit lock.  Two reads that follow a *)
(* step of the same thread and touch nothing another thread can observe are  *)
(* taken together with it: the threshold read after the pop, and __spark's   *)
(* read of the (immutable) asynchronous flag.                                *)
EXTENDS Integers, Sequences, FiniteSets, TLC

\* ------------------------------------------------------------------ bounds
MaxCalls == 2
MaxIdent == 2
MaxApiCalls == 1
MaxDepth == 2
\* Number of contents the callers log through the legacy engine.
MaxMainCalls == 3

\* --------------------------------------------------------------- constants
ALL == -128
OFF == 127
DEBUG == -32
INFO == 0
IDENT_EMPTY == -1
STANDARD == "standard"

Callers == {"t1", "t2"}
Worker == "w"
Threads == Callers \cup {Worker}

\* The stream objects the callers hold: two standard streams and a file one.
Streams == {"std1", "std2", "file1"}
StreamType(s) == IF s = "file1" THEN "file" ELSE STANDARD


\* A level reference given by a caller: a string alias, an integer, or
\* something that is neither.
\* back is the back_count given with the level (0 when none is given): an
\* int, or something that is not an int.
BackCount(n) == [n |-> n, int |-> TRUE]
NotAnInt == [n |-> 0, int |-> FALSE]
Alias(a) == [kind |-> "str", alias |-> a, num |-> 0, back |-> BackCount(0)]
Num(n) == [kind |-> "int", alias |-> "", num |-> n, back |-> BackCount(0)]
Other == [kind |-> "other", alias |-> "", num |-> 0, back |-> BackCount(0)]
NoRef == [kind |-> "none", alias |-> "", num |-> 0, back |-> BackCount(0)]
Back(ref, b) == [ref EXCEPT !.back = b]

\* No unit held.
NoUnit == [id |-> 0, level |-> 0, name |-> ""]
NoAdd == [ident |-> IDENT_EMPTY, stream |-> "none"]

VARIABLES
    level,                  \* Logging.__level
    log_format,             \* Logging.__format
    is_paused,              \* Logging.__is_paused
    is_closed,              \* Logging.__is_closed
    is_async,               \* Logging.__is_async
    list_message,           \* Logging._list_message
    list_stream,            \* Logging._list_stream
    unverified_stream_add,  \* Logging._unverified_stream_add, as <<ident, stream>> pairs
    unverified_stream_del,  \* Logging._unverified_stream_del, as <<ident, stream>> pairs
    atomic_ident,           \* _state.atomic_ident
    async_event,            \* Logging.__async_event
    lock_stream,            \* owner of Logging._lock_stream, or "free"
    stream_ident,           \* StandardOutputStream.__ident of each stream
    stream_logging,         \* StandardOutputStream.__logging of each stream
    exception_count,        \* StandardOutputStream.__exception_count
    stream_lock,            \* owner of each stream's StandardOutputStream._lock, or "free"
    other_list_stream,      \* _list_stream of a second Logging engine of the process
    pc,                     \* where each thread is
    call_arg,               \* log_level of the call() a thread is in
    add_arg,                \* ident and stream of the add_stream() a thread is in
    unit,                   \* the unit a draining thread has popped
    idx,                    \* position of a draining thread in _list_stream
    result,                 \* what each thread's last operation raised, or "ok"
    calls,                  \* history: one entry per appended unit, in append order
    received,               \* history: unit ids each stream's call was invoked with
    failed,                 \* history: number of stream.call invocations that raised
    pausedIds,              \* history: units appended while paused, since the last unpause()
    refused,                \* history: <<ident, stream>> of the add_stream calls the stream refused
    nested,                 \* history: <<thread, stream>>: the thread took _lock_stream under the stream's lock
    level_map,              \* _state.level_map: the LevelDetails in insertion order
    log_unit,               \* the format and the LogUnit handed to format_log_message
    content,                \* what format_log_message returned for them
    call_format,            \* per thread: the formats stream.call was given
                            \* for the unit the thread is delivering
    message_list,           \* logging_main.Logging.__message_list
    call_event,             \* logging_main.Logging.__call_event
    call_lock,              \* logging_main.Logging.__call_lock: "free", or the
                            \* worker while its drain recursion holds it
    op_content,             \* the content __try_op_call_asynchronous took out
    op_received,            \* history: the contents passed to the output objects
    appended,               \* history: number of contents appended so far
    main_pc                 \* position of each thread in logging_main.Logging

engine == <<level, log_format, is_paused, is_closed, is_async, list_message,
            list_stream, unverified_stream_add, unverified_stream_del>>
streams == <<stream_ident, stream_logging, exception_count, stream_lock,
             other_list_stream>>
locals == <<call_arg, add_arg, unit, idx>>
history == <<calls, received, failed, pausedIds, refused, nested>>
vars == <<engine, atomic_ident, async_event, lock_stream, streams, pc, locals,
          result, history, level_map, log_unit, content, call_format,
          message_list, call_event, call_lock, op_content, op_received, appended,
          main_pc>>
logging_main == <<message_list, call_event, call_lock, op_content, op_received,
                  appended, main_pc>>
rendering == <<logging_main, log_unit, content, call_format>>
logging == <<engine, atomic_ident, async_event, lock_stream, streams, pc, locals,
             result, history, level_map, log_unit, content, call_format>>

\* The level table at import, restricted to the two lowest built-in levels
\* used here.
BuiltinLevels ==
    << [alias |-> "debug", level |-> DEBUG, name |-> "DEBUG"],
       [alias |-> "info", level |-> INFO, name |-> "INFO"] >>

\* utils.level_details: a copy of the LevelDetails of an alias, or of the
\* first entry (in insertion order) with the numeric level, or the
\* exception raised.
\* A level_details that resolves whatever it is given, to INFO when the table
\* has no entry.
level_details_never_raises(ref) ==
    LET S == {i \in DOMAIN level_map :
                 level_map[i].alias = ref.alias \/ level_map[i].level = ref.num}
        i == CHOOSE i \in S : \A j \in S : i <= j
    IN IF S # {} THEN [level |-> level_map[i].level,
                       name |-> level_map[i].name, ok |-> TRUE, exc |-> "ok"]
       ELSE [level |-> INFO, name |-> "INFO", ok |-> TRUE, exc |-> "ok"]

\* The frame call() records for back_count b when the caller has depth
\* frames on its stack (1 is the frame that called call()): 0 when the walk
\* leaves the stack, which ends call() with an AttributeError, in the loop
\* (None.f_back) or in LogDetails.__post_init__ (None.f_globals).
frame_back(b, depth) ==
    LET back_count == IF ~b.int \/ b.n < 0 THEN 0 ELSE b.n
    IN IF back_count + 1 <= depth THEN back_count + 1 ELSE 0

level_details(ref) ==
    LET byAlias == {i \in DOMAIN level_map : level_map[i].alias = ref.alias}
        byLevel == {i \in DOMAIN level_map : level_map[i].level = ref.num}
        first(S) == CHOOSE i \in S : \A j \in S : i <= j
        found(i) == [level |-> level_map[i].level,
                     name |-> level_map[i].name, ok |-> TRUE, exc |-> "ok"]
        raise(e) == [level |-> 0, name |-> "", ok |-> FALSE, exc |-> e]
    IN IF ref.kind = "str"
       THEN IF byAlias # {} THEN found(first(byAlias))
            ELSE raise("LogLevelAliasNotExists")
       ELSE IF ref.kind = "int"
       THEN IF byLevel # {} THEN found(first(byLevel))
            ELSE raise("LogLevelNotExists")
       ELSE raise("TypeError")


\* ------------------------------------------------------------- rendering
\* A string is a sequence of tokens: literal text and the replacement
\* fields "{}", "{n}" and "{name}" of str.format.  A value is a string or
\* something that is not a str (None, an int), with the text str() gives.
Lit(x) == [n |-> 0, k |-> "lit", v |-> x]
Auto == [n |-> 0, k |-> "auto", v |-> ""]
Idx(i) == [n |-> i, k |-> "idx", v |-> ""]
Key(x) == [n |-> 0, k |-> "key", v |-> x]
Str(s) == [s |-> s, isstr |-> TRUE]
NotStr(x) == [s |-> << Lit(x) >>, isstr |-> FALSE]

\* "[{date} {time}] [{thread}/{level_name}] {message}"
FORMAT_DEFAULT ==
    << Lit("["), Key("date"), Lit(" "), Key("time"), Lit("] ["), Key("thread"),
       Lit("/"), Key("level_name"), Lit("] "), Key("message") >>
\* "[{level_name}] {message}"
FORMAT_SIMPLE == << Lit("["), Key("level_name"), Lit("] "), Key("message") >>
Formats == {FORMAT_DEFAULT, FORMAT_SIMPLE}
\* A format that has no "{message}" in it: "[{level_name}]"
FORMAT_LEVEL_ONLY == << Lit("["), Key("level_name"), Lit("]") >>

\* A dict as its items in insertion order.
Has(kw, key) == \E i \in DOMAIN kw : kw[i].key = key
Get(kw, key) == kw[CHOOSE i \in DOMAIN kw : kw[i].key = key].val
Put(kw, key, val) ==
    IF Has(kw, key)
    THEN [i \in DOMAIN kw |-> IF kw[i].key = key THEN [key |-> key, val |-> val]
                                                 ELSE kw[i]]
    ELSE Append(kw, [key |-> key, val |-> val])
RECURSIVE Update(_, _)
Update(kw, more) ==
    IF more = << >> THEN kw
    ELSE Update(Put(kw, Head(more).key, Head(more).val), Tail(more))

SECURE_FORMAT_MAXIMUM_NUMBER_OF_CORRECTIONS == 32

\* The concatenation of the strings parts[lo] .. parts[hi].
RECURSIVE Cat(_, _, _)
Cat(parts, lo, hi) ==
    IF lo > hi THEN << >>
    ELSE IF lo = hi THEN parts[lo]
    ELSE LET mid == (lo + hi) \div 2
         IN Cat(parts, lo, mid) \o Cat(parts, mid + 1, hi)

\* str.format(*args, **kw) on the string spec: the fields are handled from
\* left to right, and the first that cannot be handled raises: IndexError
\* for a positional field without an argument, KeyError (with the key) for
\* a name that is not a keyword argument, ValueError when the string
\* switches between automatic and manual numbering.
str_format(spec, args, kw) ==
    LET before(i, k) == {j \in 1..(i - 1) : spec[j].k = k}
        pos(i) == IF spec[i].k = "auto" THEN Cardinality(before(i, "auto")) + 1
                  ELSE spec[i].n + 1
        err(i) ==
            CASE spec[i].k = "lit" -> "ok"
              [] spec[i].k = "auto" ->
                    IF before(i, "idx") # {} THEN "ValueError"
                    ELSE IF pos(i) > Len(args) THEN "IndexError" ELSE "ok"
              [] spec[i].k = "idx" ->
                    IF before(i, "auto") # {} THEN "ValueError"
                    ELSE IF pos(i) > Len(args) THEN "IndexError" ELSE "ok"
              [] spec[i].k = "key" ->
                    IF Has(kw, spec[i].v) THEN "ok" ELSE "KeyError"
        bad == {i \in DOMAIN spec : err(i) # "ok"}
        first == CHOOSE i \in bad : \A j \in bad : i <= j
        piece(i) ==
            CASE spec[i].k = "lit" -> << spec[i] >>
              [] spec[i].k \in {"auto", "idx"} -> args[pos(i)].s
              [] spec[i].k = "key" -> Get(kw, spec[i].v).s
    IN IF bad # {}
       THEN [exc |-> err(first), key |-> spec[first].v, out |-> << >>]
       ELSE [exc |-> "ok", key |-> "",
             out |-> Cat([i \in DOMAIN spec |-> piece(i)], 1, Len(spec))]

\* format_spec.replace("{key}", value), value being the str s.
replace(spec, key, s) ==
    Cat([i \in DOMAIN spec |-> IF spec[i] = Key(key) THEN s ELSE << spec[i] >>],
        1, Len(spec))

\* secure_format's last handler: every "{key}" of the keyword arguments,
\* in dict order, is replaced by its value, and format_spec is returned;
\* str.replace raises TypeError when the value is not a str.
RECURSIVE secure_replace(_, _, _, _)
secure_replace(spec, kw, j, count) ==
    IF j > Len(kw) THEN [exc |-> "ok", out |-> spec, count |-> count]
    ELSE IF ~kw[j].val.isstr THEN [exc |-> "TypeError", out |-> << >>, count |-> count]
    ELSE secure_replace(replace(spec, kw[j].key, kw[j].val.s), kw, j + 1, count)

\* utils.secure_format: count is the number of corrections made so far.
RECURSIVE secure_from(_, _, _, _)
secure_from(spec, args, kw, count) ==
    IF count > SECURE_FORMAT_MAXIMUM_NUMBER_OF_CORRECTIONS
    THEN secure_replace(spec, kw, 1, count)
    ELSE LET r == str_format(spec, args, kw)
         IN IF r.exc = "ok" THEN [exc |-> "ok", out |-> r.out, count |-> count]
            ELSE IF r.exc = "IndexError"
            THEN secure_from(spec, Append(args, Str(<< Auto >>)), kw, count + 1)
            ELSE IF r.exc = "KeyError"
            THEN secure_from(spec, args, Put(kw, r.key, Str(<< Key(r.key) >>)),
                             count + 1)
            ELSE secure_replace(spec, kw, 1, count)
secure_format(spec, args, kw) == secure_from(spec, args, kw, 0)

\* dataclasses.asdict(log_unit.details): the private source field, which
\* __post_init__ set to None, comes first; then the message, the mark (the
\* Ellipsis call() passes by default), the level name, and of the other
\* fields the date, the time and the thread name.
asdict(u) ==
    << [key |-> "_LogDetails__source", val |-> NotStr("None")],
       [key |-> "message", val |-> Str(u.message)],
       [key |-> "mark", val |-> NotStr("Ellipsis")],
       [key |-> "level_name", val |-> Str(<< Lit(u.level_name) >>)],
       [key |-> "date", val |-> Str(<< Lit("2026-01-01") >>)],
       [key |-> "time", val |-> Str(<< Lit("00:00:00") >>)],
       [key |-> "thread", val |-> Str(<< Lit("MainThread") >>)] >>

\* What a rendering gives: the string returned (no exception leaves the
\* function: both handlers are `except Exception`), and the largest number
\* of corrections one secure_format call made.
Returned(out, n) == [out |-> out, raised |-> "", corrections |-> n]
Max(a, b) == IF a > b THEN a ELSE b

\* utils.format_log_message_secure
format_log_message_secure(fmt, u) ==
    LET kw == asdict(u)
        r1 == secure_format(fmt, << >>, kw)
        r2 == secure_format(r1.out, u.args, Update(kw, u.kwargs))
    IN IF r1.exc # "ok" THEN Returned(fmt, r1.count)
       ELSE IF r2.exc # "ok" THEN Returned(fmt, Max(r1.count, r2.count))
       ELSE Returned(r2.out, Max(r1.count, r2.count))

\* utils.format_log_message
format_log_message(fmt, u) ==
    LET kw == asdict(u)
        r1 == str_format(fmt, << >>, kw)
        r2 == str_format(r1.out, u.args, Update(kw, u.kwargs))
    IN IF r1.exc = "ok" /\ r2.exc = "ok" THEN Returned(r2.out, 0)
       ELSE format_log_message_secure(fmt, u)

NoLogUnit == [args |-> << >>, message |-> << >>, level_name |-> "",
              kwargs |-> << >>, format |-> << >>]
NoContent == [out |-> << >>, raised |-> "none", corrections |-> 0]

\* StandardOutputStream.call's first statement, on its own.
render ==
    /\ content = NoContent
    /\ content' = format_log_message(log_unit.format, log_unit)
    /\ UNCHANGED <<engine, atomic_ident, async_event, lock_stream, streams, pc,
                   locals, result, history, level_map, log_unit, call_format,
                   logging_main>>

\* ------------------------------------------------------------------- Init
\* What the caller has registered when the threads start: nothing
\* (stdout = False), the constructor's standard stream (stdout = True, the
\* default; it takes the first ident), or that stream and a file stream
\* added by add_stream(FileOutputStream()) right after construction.
Registries == { << >>, << "std1" >>, << "std1", "file1" >> }

Index(q, s) == CHOOSE i \in DOMAIN q : q[i] = s
InSeq(q, s) == \E i \in DOMAIN q : q[i] = s

\* The state after Logging.__init__ with the default level and format; the
\* constructor's stdout and asynchronous arguments are free.  u is the unit
\* a stream is about to be called with.
InitLogging(u) ==
    \E registry \in Registries, asynchronous \in BOOLEAN :
        /\ level = INFO
        /\ log_format = FORMAT_DEFAULT
        /\ is_paused = FALSE
        /\ is_closed = FALSE
        /\ is_async = asynchronous
        /\ list_message = << >>
        /\ list_stream = registry
        /\ unverified_stream_add = {}
        /\ unverified_stream_del = {}
        /\ atomic_ident = Len(registry)
        /\ async_event = FALSE
        /\ lock_stream = "free"
        /\ stream_ident = [s \in Streams |-> IF InSeq(registry, s)
                                             THEN Index(registry, s) - 1
                                             ELSE IDENT_EMPTY]
        /\ stream_logging = [s \in Streams |-> InSeq(registry, s)]
        /\ exception_count = [s \in Streams |-> 0]
        /\ stream_lock = [s \in Streams |-> "free"]
        /\ other_list_stream = << >>
        /\ pc = [t \in Threads |-> IF t = Worker
                                   THEN (IF asynchronous THEN "wait" ELSE "none")
                                   ELSE "idle"]
        /\ call_arg = [t \in Threads |-> NoRef]
        /\ add_arg = [t \in Threads |-> NoAdd]
        /\ unit = [t \in Threads |-> NoUnit]
        /\ idx = [t \in Threads |-> 0]
        /\ result = [t \in Threads |-> "ok"]
        /\ calls = << >>
        /\ received = [s \in Streams |-> << >>]
        /\ failed = [s \in Streams |-> 0]
        /\ pausedIds = {}
        /\ refused = {}
        /\ nested = {}
        /\ level_map = BuiltinLevels
        /\ log_unit = u
        /\ content = NoContent
        /\ call_format = [t \in Threads |-> {}]
        /\ message_list = << >>
        /\ call_event = FALSE
        /\ call_lock = "free"
        /\ op_content = 0
        /\ op_received = << >>
        /\ appended = 0
        /\ main_pc = [t \in Threads |-> IF t = Worker THEN "wait" ELSE "idle"]

Init == InitLogging(NoLogUnit)

\* ---------------------------------------------------------------- helpers
\* A __close_check that never raises.
close_check_never == FALSE

\* Logging.__close_check: TRUE when it raises LoggingIsClosed.
close_check == is_closed

\* An exist_stdout_stream that finds no standard stream.
exist_stdout_stream_never == FALSE

\* Logging.exist_stdout_stream
exist_stdout_stream ==
    \E i \in DOMAIN list_stream : StreamType(list_stream[i]) = STANDARD

\* A try_execute whose except clause does not catch the function's exception.
try_execute_propagates(raises, fallback_value) ==
    [propagated |-> raises, value |-> 0]

\* utils.try_execute: the function's result (None, written 0), or the
\* fallback value when the function raised; `except Exception` lets no
\* exception of the function through.
try_execute(raises, fallback_value) ==
    [propagated |-> FALSE, value |-> IF raises THEN fallback_value ELSE 0]

\* Where __try_call_stream returns to: the caller's operation ends, the
\* worker goes back to waiting for its event.
Return(t) == IF t = Worker THEN "wait" ELSE "idle"

\* An operation of thread t ends, raising exc or returning ("ok").
Finish(t, exc) ==
    /\ pc' = [pc EXCEPT ![t] = "idle"]
    /\ result' = [result EXCEPT ![t] = exc]

\* ------------------------------------------------------------- set_level
set_level(t, lv) ==
    /\ pc[t] = "idle"
    /\ LET out == IF lv.kind = "str" THEN level_details(lv)
                  ELSE IF lv.kind = "int"
                  THEN IF ALL <= lv.num /\ lv.num <= OFF
                       THEN [level |-> lv.num, name |-> "", ok |-> TRUE, exc |-> "ok"]
                       ELSE [level |-> 0, name |-> "", ok |-> FALSE, exc |-> "LogLevelInvalid"]
                  ELSE [level |-> 0, name |-> "", ok |-> FALSE, exc |-> "TypeError"]
       IN /\ level' = IF out.ok THEN out.level ELSE level
          /\ Finish(t, out.exc)
    /\ UNCHANGED <<rendering, level_map, log_format, is_paused, is_closed, is_async, list_message,
                   list_stream, unverified_stream_add, unverified_stream_del,
                   atomic_ident, async_event, lock_stream, streams, locals, history>>

\* ------------------------------------------------------------ set_format
\* isstr is FALSE when the argument is not a str.
set_format(t, f, isstr) ==
    /\ pc[t] = "idle"
    /\ log_format' = IF isstr THEN f ELSE log_format
    /\ Finish(t, IF isstr THEN "ok" ELSE "TypeError")
    /\ UNCHANGED <<rendering, level_map, level, is_paused, is_closed, is_async, list_message,
                   list_stream, unverified_stream_add, unverified_stream_del,
                   atomic_ident, async_event, lock_stream, streams, locals, history>>

\* ----------------------------------------------------------------- pause
pause(t) ==
    /\ pc[t] = "idle"
    /\ is_paused' = TRUE
    /\ Finish(t, "ok")
    /\ UNCHANGED <<rendering, level_map, level, log_format, is_closed, is_async, list_message,
                   list_stream, unverified_stream_add, unverified_stream_del,
                   atomic_ident, async_event, lock_stream, streams, locals, history>>

\* --------------------------------------------------------------- __spark
\* A __spark that delivers on the calling thread in either mode.
spark_on_caller(t) ==
    /\ async_event' = async_event
    /\ pc' = [pc EXCEPT ![t] = "drain_pop"]

\* A __spark that never sets the worker's event.
spark_without_set(t) ==
    IF is_async
    THEN /\ async_event' = async_event
         /\ pc' = [pc EXCEPT ![t] = "idle"]
    ELSE /\ async_event' = async_event
         /\ pc' = [pc EXCEPT ![t] = "drain_pop"]

\* Logging.__spark as the last step of thread t's operation: set the
\* worker's event, or enter __try_call_stream on the calling thread.
spark(t) ==
    IF is_async
    THEN /\ async_event' = TRUE
         /\ pc' = [pc EXCEPT ![t] = "idle"]
    ELSE /\ async_event' = async_event
         /\ pc' = [pc EXCEPT ![t] = "drain_pop"]

\* --------------------------------------------------------------- unpause
\* An unpause() that clears the wrong flag.
unpause_clears_closed(t) ==
    /\ pc[t] = "idle"
    /\ is_closed' = FALSE
    /\ spark(t)
    /\ result' = [result EXCEPT ![t] = "ok"]
    /\ pausedIds' = {}
    /\ UNCHANGED <<rendering, level_map, level, log_format, is_paused, is_async, list_message,
                   list_stream, unverified_stream_add, unverified_stream_del,
                   atomic_ident, lock_stream, streams, locals,
                   calls, received, failed, refused, nested>>

\* An unpause() that clears the flag and returns without __spark.
unpause_without_spark(t) ==
    /\ pc[t] = "idle"
    /\ is_paused' = FALSE
    /\ result' = [result EXCEPT ![t] = "ok"]
    /\ pausedIds' = {}
    /\ UNCHANGED <<rendering, level_map, level, log_format, is_closed, is_async, list_message,
                   list_stream, unverified_stream_add, unverified_stream_del,
                   atomic_ident, async_event, lock_stream, streams, pc, locals,
                   calls, received, failed, refused, nested>>

unpause(t) ==
    /\ pc[t] = "idle"
    /\ is_paused' = FALSE
    /\ spark(t)
    /\ result' = [result EXCEPT ![t] = "ok"]
    /\ pausedIds' = {}
    /\ UNCHANGED <<rendering, level_map, level, log_format, is_closed, is_async, list_message,
                   list_stream, unverified_stream_add, unverified_stream_del,
                   atomic_ident, lock_stream, streams, locals,
                   calls, received, failed, refused, nested>>

\* ----------------------------------------------------------------- close
\* __close_check at the head of close().
close_enter(t) ==
    /\ pc[t] = "idle"
    /\ IF close_check
       THEN Finish(t, "LoggingIsClosed")
       ELSE /\ pc' = [pc EXCEPT ![t] = "close_set"]
            /\ result' = [result EXCEPT ![t] = "ok"]
    /\ UNCHANGED <<rendering, level_map, engine, atomic_ident, async_event, lock_stream, streams, locals, history>>

\* The flag is set under _lock_set; in asynchronous mode the worker's
\* event is set afterwards.
close_set(t) ==
    /\ pc[t] = "close_set"
    /\ is_closed' = TRUE
    /\ async_event' = (IF is_async THEN TRUE ELSE async_event)
    /\ pc' = [pc EXCEPT ![t] = "idle"]
    /\ UNCHANGED <<rendering, level_map, level, log_format, is_paused, is_async, list_message,
                   list_stream, unverified_stream_add, unverified_stream_del,
                   atomic_ident, lock_stream, streams, locals, result, history>>

\* --------------------------------------------------------- clear_message
\* A clear that leaves the newest record in the list.
clear_message_keeps_last(t) ==
    /\ pc[t] = "idle"
    /\ list_message' = IF list_message = << >> THEN << >>
                       ELSE << list_message[Len(list_message)] >>
    /\ Finish(t, "ok")
    /\ UNCHANGED <<rendering, level_map, level, log_format, is_paused, is_closed, is_async,
                   list_stream, unverified_stream_add, unverified_stream_del,
                   atomic_ident, async_event, lock_stream, streams, locals, history>>

\* `with self._lock_message: self._list_message.clear()`; clear() is the
\* same call.
clear_message(t) ==
    /\ pc[t] = "idle"
    /\ list_message' = << >>
    /\ Finish(t, "ok")
    /\ UNCHANGED <<rendering, level_map, level, log_format, is_paused, is_closed, is_async,
                   list_stream, unverified_stream_add, unverified_stream_del,
                   atomic_ident, async_event, lock_stream, streams, locals, history>>

\* ------------------------------------------------------------------ call
\* __close_check at the head of call().
call_enter(t, lv) ==
    /\ pc[t] = "idle"
    /\ close_check \/ Len(calls) + Cardinality({u \in Callers : pc[u] = "call_build"}) < MaxCalls
    /\ IF close_check
       THEN /\ Finish(t, "LoggingIsClosed")
            /\ call_arg' = call_arg
       ELSE /\ pc' = [pc EXCEPT ![t] = "call_build"]
            /\ result' = [result EXCEPT ![t] = "ok"]
            /\ call_arg' = [call_arg EXCEPT ![t] = lv]
    /\ UNCHANGED <<rendering, level_map, engine, atomic_ident, async_event, lock_stream, streams,
                   add_arg, unit, idx, history>>

\* A call() whose append waits while a drain is inside the loop over the
\* streams, as it would if the drain kept _lock_message until then.
call_build_waits_for_delivery(t) ==
    /\ pc[t] = "call_build"
    /\ \A u \in Threads : pc[u] # "drain_stream"
    /\ \E depth \in 1..MaxDepth :
         LET ld == level_details(call_arg[t])
             frame == frame_back(call_arg[t].back, depth)
             id == Len(calls) + 1
         IN IF ld.ok /\ frame # 0
            THEN /\ list_message' = Append(list_message, [id |-> id, level |-> ld.level,
                                                               name |-> ld.name])
                 /\ calls' = Append(calls, [low |-> ld.level < level, paused |-> is_paused])
                 /\ pausedIds' = IF is_paused THEN pausedIds \cup {id} ELSE pausedIds
                 /\ pc' = [pc EXCEPT ![t] = "call_paused"]
                 /\ result' = result
            ELSE /\ Finish(t, IF ld.ok THEN "AttributeError" ELSE ld.exc)
                 /\ UNCHANGED <<list_message, calls, pausedIds>>
    /\ call_arg' = [call_arg EXCEPT ![t] = NoRef]
    /\ UNCHANGED <<rendering, level_map, level, log_format, is_paused, is_closed, is_async,
                   list_stream, unverified_stream_add, unverified_stream_del,
                   atomic_ident, async_event, lock_stream, streams,
                   add_arg, unit, idx, received, failed, refused,
                   nested>>

\* The unit is built under _lock_call (level_details may raise, and so may
\* the walk up the caller's stack, whose depth is the caller's) and appended
\* under _lock_message.  Units are numbered in the order they are appended;
\* the history keeps what held when the unit was appended.
call_build(t) ==
    /\ pc[t] = "call_build"
    /\ \E depth \in 1..MaxDepth :
         LET ld == level_details(call_arg[t])
             frame == frame_back(call_arg[t].back, depth)
             id == Len(calls) + 1
         IN IF ld.ok /\ frame # 0
            THEN /\ list_message' = Append(list_message, [id |-> id, level |-> ld.level,
                                                               name |-> ld.name])
                 /\ calls' = Append(calls, [low |-> ld.level < level, paused |-> is_paused])
                 /\ pausedIds' = IF is_paused THEN pausedIds \cup {id} ELSE pausedIds
                 /\ pc' = [pc EXCEPT ![t] = "call_paused"]
                 /\ result' = result
            ELSE /\ Finish(t, IF ld.ok THEN "AttributeError" ELSE ld.exc)
                 /\ UNCHANGED <<list_message, calls, pausedIds>>
    /\ call_arg' = [call_arg EXCEPT ![t] = NoRef]
    /\ UNCHANGED <<rendering, level_map, level, log_format, is_paused, is_closed, is_async,
                   list_stream, unverified_stream_add, unverified_stream_del,
                   atomic_ident, async_event, lock_stream, streams,
                   add_arg, unit, idx, received, failed, refused,
                   nested>>

\* `if self.is_paused: return`, else __spark.
call_paused(t) ==
    /\ pc[t] = "call_paused"
    /\ IF is_paused
       THEN /\ pc' = [pc EXCEPT ![t] = "idle"]
            /\ async_event' = async_event
       ELSE spark(t)
    /\ UNCHANGED <<rendering, level_map, engine, atomic_ident, lock_stream, streams, locals, result, history>>

\* ----------------------------------------------------- __try_call_stream
\* A drain without `if unit.details.level < self.level: continue`.
drain_pop_unfiltered(t) ==
    /\ pc[t] = "drain_pop"
    /\ IF list_message = << >>
       THEN /\ pc' = [pc EXCEPT ![t] = Return(t)]
            /\ UNCHANGED <<list_message, unit>>
       ELSE /\ list_message' = Tail(list_message)
            /\ unit' = [unit EXCEPT ![t] = Head(list_message)]
            /\ pc' = [pc EXCEPT ![t] = "drain_lock"]
    /\ UNCHANGED <<rendering, level_map, level, log_format, is_paused, is_closed, is_async,
                   list_stream, unverified_stream_add, unverified_stream_del,
                   atomic_ident, async_event, lock_stream, streams,
                   call_arg, add_arg, idx, result, history>>

\* A drain that reads the head of the list without removing it.
drain_pop_keeps_head(t) ==
    /\ pc[t] = "drain_pop"
    /\ IF list_message = << >>
       THEN /\ pc' = [pc EXCEPT ![t] = Return(t)]
            /\ UNCHANGED <<list_message, unit>>
       ELSE /\ IF Head(list_message).level < level
               THEN /\ list_message' = Tail(list_message)
                    /\ UNCHANGED <<pc, unit>>
               ELSE /\ list_message' = list_message
                    /\ unit' = [unit EXCEPT ![t] = Head(list_message)]
                    /\ pc' = [pc EXCEPT ![t] = "drain_lock"]
    /\ UNCHANGED <<rendering, level_map, level, log_format, is_paused, is_closed, is_async,
                   list_stream, unverified_stream_add, unverified_stream_del,
                   atomic_ident, async_event, lock_stream, streams,
                   call_arg, add_arg, idx, result, history>>

\* Under _lock_message: return when the list is empty, else pop the head;
\* then `if unit.details.level < self.level: continue`.
drain_pop(t) ==
    /\ pc[t] = "drain_pop"
    /\ IF list_message = << >>
       THEN /\ pc' = [pc EXCEPT ![t] = Return(t)]
            /\ UNCHANGED <<list_message, unit>>
       ELSE /\ list_message' = Tail(list_message)
            /\ IF Head(list_message).level < level
               THEN UNCHANGED <<pc, unit>>
               ELSE /\ unit' = [unit EXCEPT ![t] = Head(list_message)]
                    /\ pc' = [pc EXCEPT ![t] = "drain_lock"]
    /\ UNCHANGED <<rendering, level_map, level, log_format, is_paused, is_closed, is_async,
                   list_stream, unverified_stream_add, unverified_stream_del,
                   atomic_ident, async_event, lock_stream, streams,
                   call_arg, add_arg, idx, result, history>>

\* A loop over the streams that starts at the second stream.
drain_lock_skips_first(t) ==
    /\ pc[t] = "drain_lock"
    /\ lock_stream = "free"
    /\ lock_stream' = t
    /\ idx' = [idx EXCEPT ![t] = 2]
    /\ pc' = [pc EXCEPT ![t] = "drain_stream"]
    /\ UNCHANGED <<rendering, level_map, engine, atomic_ident, async_event, streams,
                   call_arg, add_arg, unit, result, history>>

\* `with self._lock_stream:` around the loop over the streams.
drain_lock(t) ==
    /\ pc[t] = "drain_lock"
    /\ lock_stream = "free"
    /\ lock_stream' = t
    /\ idx' = [idx EXCEPT ![t] = 1]
    /\ pc' = [pc EXCEPT ![t] = "drain_stream"]
    /\ UNCHANGED <<rendering, level_map, engine, atomic_ident, async_event, streams,
                   call_arg, add_arg, unit, result, history>>

\* FileOutputStream.call reads self.target under the stream's lock, and
\* add_exception_count takes it; StandardOutputStream.call takes no lock.
NeedsStreamLock(s, raises) == StreamType(s) = "file" \/ raises

\* A loop that hands FORMAT_DEFAULT to the streams, whatever the format is.
drain_stream_default_format(t, raises) ==
    /\ pc[t] = "drain_stream"
    /\ lock_stream = t
    /\ idx[t] <= Len(list_stream)
    /\ LET s == list_stream[idx[t]]
           r == try_execute(raises, 1)
       IN /\ NeedsStreamLock(s, raises) => stream_lock[s] \in {"free", t}
          /\ received' = [received EXCEPT ![s] = Append(@, unit[t].id)]
          /\ failed' = [failed EXCEPT ![s] = IF raises THEN @ + 1 ELSE @]
          /\ call_format' = [call_format EXCEPT
                                ![t] = IF r.propagated THEN {} ELSE @ \cup {FORMAT_DEFAULT}]
          /\ IF r.propagated
             THEN /\ lock_stream' = "free"
                  /\ pc' = [pc EXCEPT ![t] = IF t = Worker THEN "exited" ELSE "idle"]
                  /\ result' = [result EXCEPT ![t] = "Exception"]
                  /\ unit' = [unit EXCEPT ![t] = NoUnit]
                  /\ idx' = [idx EXCEPT ![t] = 0]
                  /\ exception_count' = exception_count
             ELSE /\ exception_count' =
                         [exception_count EXCEPT
                             ![s] = IF r.value # 1 THEN @ ELSE @ + 1]
                  /\ idx' = [idx EXCEPT ![t] = @ + 1]
                  /\ UNCHANGED <<lock_stream, pc, result, unit>>
    /\ UNCHANGED <<logging_main, log_unit, content, level_map, engine, atomic_ident, async_event, stream_ident,
                   stream_logging, stream_lock, other_list_stream,
                   call_arg, add_arg, calls, pausedIds, refused, nested>>

\* One iteration of the loop: stream.call is invoked with the unit and may
\* raise; try_execute turns the exception into the fallback value 1, and
\* then add_exception_count is called.  An exception that try_execute let
\* through would leave the `with` block and end the thread's operation.
drain_stream(t, raises) ==
    /\ pc[t] = "drain_stream"
    /\ lock_stream = t
    /\ idx[t] <= Len(list_stream)
    /\ LET s == list_stream[idx[t]]
           r == try_execute(raises, 1)
       IN /\ NeedsStreamLock(s, raises) => stream_lock[s] \in {"free", t}
          /\ received' = [received EXCEPT ![s] = Append(@, unit[t].id)]
          /\ failed' = [failed EXCEPT ![s] = IF raises THEN @ + 1 ELSE @]
          /\ call_format' = [call_format EXCEPT
                                ![t] = IF r.propagated THEN {} ELSE @ \cup {log_format}]
          /\ IF r.propagated
             THEN /\ lock_stream' = "free"
                  /\ pc' = [pc EXCEPT ![t] = IF t = Worker THEN "exited" ELSE "idle"]
                  /\ result' = [result EXCEPT ![t] = "Exception"]
                  /\ unit' = [unit EXCEPT ![t] = NoUnit]
                  /\ idx' = [idx EXCEPT ![t] = 0]
                  /\ exception_count' = exception_count
             ELSE /\ exception_count' =
                         [exception_count EXCEPT
                             ![s] = IF r.value # 1 THEN @ ELSE @ + 1]
                  /\ idx' = [idx EXCEPT ![t] = @ + 1]
                  /\ UNCHANGED <<lock_stream, pc, result, unit>>
    /\ UNCHANGED <<logging_main, log_unit, content, level_map, engine, atomic_ident, async_event, stream_ident,
                   stream_logging, stream_lock, other_list_stream,
                   call_arg, add_arg, calls, pausedIds, refused, nested>>

\* The loop is over: _lock_stream is released and the thread goes back to
\* pop the next unit.
drain_unlock(t) ==
    /\ pc[t] = "drain_stream"
    /\ lock_stream = t
    /\ idx[t] > Len(list_stream)
    /\ lock_stream' = "free"
    /\ pc' = [pc EXCEPT ![t] = "drain_pop"]
    /\ unit' = [unit EXCEPT ![t] = NoUnit]
    /\ idx' = [idx EXCEPT ![t] = 0]
    /\ call_format' = [call_format EXCEPT ![t] = {}]
    /\ UNCHANGED <<logging_main, log_unit, content, level_map, engine, atomic_ident, async_event, streams, call_arg, add_arg,
                   result, history>>

\* ------------------------------------------------------ __async_mainloop
\* self.__async_event.wait()
worker_wait ==
    /\ pc[Worker] = "wait"
    /\ async_event
    /\ pc' = [pc EXCEPT ![Worker] = "clear"]
    /\ UNCHANGED <<rendering, level_map, engine, atomic_ident, async_event, lock_stream, streams,
                   locals, result, history>>

\* self.__async_event.clear()
worker_clear ==
    /\ pc[Worker] = "clear"
    /\ async_event' = FALSE
    /\ pc' = [pc EXCEPT ![Worker] = "check_paused"]
    /\ UNCHANGED <<rendering, level_map, engine, atomic_ident, lock_stream, streams, locals, result, history>>

\* `if self.is_paused: continue`
worker_check_paused ==
    /\ pc[Worker] = "check_paused"
    /\ pc' = [pc EXCEPT ![Worker] = IF is_paused THEN "wait" ELSE "check_closed"]
    /\ UNCHANGED <<rendering, level_map, engine, atomic_ident, async_event, lock_stream, streams,
                   locals, result, history>>

\* `if self.is_closed: sys.exit()`, else __try_call_stream.
worker_check_closed ==
    /\ pc[Worker] = "check_closed"
    /\ pc' = [pc EXCEPT ![Worker] = IF is_closed THEN "exited" ELSE "drain_pop"]
    /\ UNCHANGED <<rendering, level_map, engine, atomic_ident, async_event, lock_stream, streams,
                   locals, result, history>>

\* ------------------------------------------------------------ add_stream
\* The number of idents that operations already under way will still take.
IdentsToCome ==
    Cardinality({u \in Callers : pc[u] \in {"associate_user", "add_nested"}
                                 /\ add_arg[u].ident = IDENT_EMPTY})

\* The part of add_stream under _lock_stream: the standard-stream check,
\* a fresh ident, and the entry in the pending-add map.
add_stream(t, s) ==
    /\ pc[t] = "idle"
    /\ lock_stream = "free"
    /\ atomic_ident + IdentsToCome < MaxIdent
    /\ IF StreamType(s) = STANDARD /\ exist_stdout_stream
       THEN /\ Finish(t, "StreamVerificationFailed")
            /\ UNCHANGED <<atomic_ident, unverified_stream_add, add_arg>>
       ELSE /\ atomic_ident' = atomic_ident + 1
            /\ unverified_stream_add' = unverified_stream_add \cup {<<atomic_ident, s>>}
            /\ add_arg' = [add_arg EXCEPT ![t] = [ident |-> atomic_ident, stream |-> s]]
            /\ pc' = [pc EXCEPT ![t] = "associate"]
            /\ result' = [result EXCEPT ![t] = "ok"]
    /\ UNCHANGED <<rendering, level_map, level, log_format, is_paused, is_closed, is_async, list_message,
                   list_stream, unverified_stream_del, async_event, lock_stream,
                   streams, call_arg, unit, idx, history>>

\* An add_stream_verify that does not compare the stream objects.
add_stream_verify_any_stream(s, ident) ==
    \E p \in unverified_stream_add : p[1] = ident

\* Logging.add_stream_verify: TRUE when the ident is pending for this stream.
add_stream_verify(s, ident) == <<ident, s>> \in unverified_stream_add

\* The caller invokes stream.associate(engine, ident) itself, with an ident
\* of its choice or with none (IDENT_EMPTY).
associate_call(t, s, ident) ==
    /\ pc[t] = "idle"
    /\ ident = IDENT_EMPTY => atomic_ident + IdentsToCome < MaxIdent
    /\ add_arg' = [add_arg EXCEPT ![t] = [ident |-> ident, stream |-> s]]
    /\ pc' = [pc EXCEPT ![t] = "associate_user"]
    /\ result' = [result EXCEPT ![t] = "ok"]
    /\ UNCHANGED <<rendering, level_map, engine, atomic_ident, async_event, lock_stream, streams,
                   call_arg, unit, idx, history>>

\* An association test that never finds the stream associated.
is_associated_never(s) == FALSE

\* `if self.logging is not None or self.ident != IDENT_EMPTY:`
is_associated(s) == stream_logging[s] \/ stream_ident[s] # IDENT_EMPTY

\* stream.associate(self, ident), called by add_stream after it released
\* _lock_stream, or by the user.  `with self._lock:` and the test whether the stream is
\* already associated (StreamAssociationFailed is not defined anywhere, so
\* the raise statement raises NameError).  Without an ident the stream goes
\* on to call add_stream itself, still holding its lock.
associate(t) ==
    /\ pc[t] \in {"associate", "associate_user"}
    /\ LET s == add_arg[t].stream
           ident == add_arg[t].ident
       IN /\ stream_lock[s] \in {"free", t}
          /\ IF is_associated(s)
             THEN /\ Finish(t, "NameError")
                  /\ stream_lock' = [stream_lock EXCEPT ![s] = "free"]
                  /\ refused' = IF pc[t] = "associate"
                                THEN refused \cup {<<ident, s>>}
                                ELSE refused
                  /\ add_arg' = [add_arg EXCEPT ![t] = NoAdd]
             ELSE /\ stream_lock' = [stream_lock EXCEPT ![s] = t]
                  /\ pc' = [pc EXCEPT ![t] = IF ident = IDENT_EMPTY
                                             THEN "add_nested"
                                             ELSE "associate_verify"]
                  /\ UNCHANGED <<result, refused, add_arg>>
    /\ UNCHANGED <<rendering, level_map, engine, atomic_ident, async_event, lock_stream, stream_ident,
                   stream_logging, exception_count, other_list_stream,
                   call_arg, unit, idx, calls, received, failed, pausedIds,
                   nested>>

\* logging_object.add_stream(self), called by stream.associate under the
\* stream's lock: the part of add_stream under _lock_stream.
add_stream_nested(t) ==
    /\ pc[t] = "add_nested"
    /\ lock_stream = "free"
    /\ nested' = nested \cup {<<t, add_arg[t].stream>>}
    /\ LET s == add_arg[t].stream
       IN IF StreamType(s) = STANDARD /\ exist_stdout_stream
          THEN /\ Finish(t, "StreamVerificationFailed")
               /\ stream_lock' = [stream_lock EXCEPT ![s] = "free"]
               /\ add_arg' = [add_arg EXCEPT ![t] = NoAdd]
               /\ UNCHANGED <<atomic_ident, unverified_stream_add>>
          ELSE /\ atomic_ident' = atomic_ident + 1
               /\ unverified_stream_add' = unverified_stream_add \cup {<<atomic_ident, s>>}
               /\ add_arg' = [add_arg EXCEPT ![t] = [ident |-> atomic_ident, stream |-> s]]
               /\ pc' = [pc EXCEPT ![t] = "associate_verify"]
               /\ UNCHANGED <<result, stream_lock>>
    /\ UNCHANGED <<rendering, level_map, level, log_format, is_paused, is_closed, is_async, list_message,
                   list_stream, unverified_stream_del, async_event, lock_stream,
                   stream_ident, stream_logging, exception_count, other_list_stream,
                   call_arg, unit, idx, calls, received, failed, pausedIds,
                   refused>>

\* What stream.associate raises when add_stream_verify returns False.
InvalidIdent == "StreamVerificationFailed: The ident is not valid."

\* `if logging_object.add_stream_verify(self, ident):` under the stream's
\* lock; add_stream_verify takes _lock_stream, appends the stream and
\* deletes the pending entry.
associate_verify(t) ==
    /\ pc[t] = "associate_verify"
    /\ lock_stream = "free"
    /\ nested' = nested \cup {<<t, add_arg[t].stream>>}
    /\ LET s == add_arg[t].stream
           ident == add_arg[t].ident
       IN IF add_stream_verify(s, ident)
          THEN /\ list_stream' = Append(list_stream, s)
               /\ unverified_stream_add' = unverified_stream_add \ {<<ident, s>>}
               /\ pc' = [pc EXCEPT ![t] = "associate_set"]
               /\ UNCHANGED <<result, stream_lock, add_arg>>
          ELSE /\ Finish(t, InvalidIdent)
               /\ stream_lock' = [stream_lock EXCEPT ![s] = "free"]
               /\ add_arg' = [add_arg EXCEPT ![t] = NoAdd]
               /\ UNCHANGED <<list_stream, unverified_stream_add>>
    /\ UNCHANGED <<rendering, level_map, level, log_format, is_paused, is_closed, is_async, list_message,
                   unverified_stream_del, atomic_ident, async_event, lock_stream,
                   stream_ident, stream_logging, exception_count, other_list_stream,
                   call_arg, unit, idx, calls, received, failed, pausedIds,
                   refused>>

\* The stream takes the engine and the ident and releases its lock.
associate_set(t) ==
    /\ pc[t] = "associate_set"
    /\ LET s == add_arg[t].stream
           ident == add_arg[t].ident
       IN /\ stream_logging' = [stream_logging EXCEPT ![s] = TRUE]
          /\ stream_ident' = [stream_ident EXCEPT ![s] = ident]
          /\ stream_lock' = [stream_lock EXCEPT ![s] = "free"]
    /\ add_arg' = [add_arg EXCEPT ![t] = NoAdd]
    /\ Finish(t, "ok")
    /\ UNCHANGED <<rendering, level_map, engine, atomic_ident, async_event, lock_stream, exception_count,
                   other_list_stream, call_arg, unit, idx, history>>

\* ------------------------------------------------------------ del_stream
\* A remove that leaves the list as it is.
Remove_nothing(q, s) == q

\* The sequence q without its first occurrence of s (list.remove).
Remove(q, s) ==
    LET i == CHOOSE k \in DOMAIN q : q[k] = s /\ \A j \in 1..(k - 1) : q[j] # s
    IN SubSeq(q, 1, i - 1) \o SubSeq(q, i + 1, Len(q))

\* A del_stream that does not wait for _lock_stream.
del_stream_without_lock(t, ident) ==
    /\ pc[t] = "idle"
    /\ lock_stream' = t
    /\ add_arg' = [add_arg EXCEPT ![t] = [ident |-> ident, stream |-> "none"]]
    /\ pc' = [pc EXCEPT ![t] = "del_scan"]
    /\ result' = [result EXCEPT ![t] = "ok"]
    /\ UNCHANGED <<rendering, level_map, engine, atomic_ident, async_event, streams, call_arg, unit,
                   idx, history>>

\* del_stream(ident): `with self._lock_stream:`.
del_stream(t, ident) ==
    /\ pc[t] = "idle"
    /\ lock_stream = "free"
    /\ lock_stream' = t
    /\ add_arg' = [add_arg EXCEPT ![t] = [ident |-> ident, stream |-> "none"]]
    /\ pc' = [pc EXCEPT ![t] = "del_scan"]
    /\ result' = [result EXCEPT ![t] = "ok"]
    /\ UNCHANGED <<rendering, level_map, engine, atomic_ident, async_event, streams, call_arg, unit,
                   idx, history>>

\* A stream.disassociate() that keeps the stream's lock while it calls
\* del_stream on the engine.
disassociate_under_lock(t, s) ==
    /\ pc[t] = "idle"
    /\ stream_lock[s] = "free"
    /\ stream_logging[s]
    /\ ~InSeq(other_list_stream, s)
    /\ stream_lock' = [stream_lock EXCEPT ![s] = t]
    /\ add_arg' = [add_arg EXCEPT ![t] = [ident |-> stream_ident[s],
                                          stream |-> "none"]]
    /\ pc' = [pc EXCEPT ![t] = "del_enter"]
    /\ result' = [result EXCEPT ![t] = "ok"]
    /\ UNCHANGED <<rendering, level_map, engine, atomic_ident, async_event, lock_stream, stream_ident,
                   stream_logging, exception_count, other_list_stream,
                   call_arg, unit, idx, history>>

\* The caller invokes stream.disassociate() itself: the stream reads its
\* engine and ident under its lock and calls del_stream on the engine (on
\* None, when it is not associated).  The del_stream of the second engine
\* is one step, as its add_stream is.
disassociate(t, s) ==
    /\ pc[t] = "idle"
    /\ stream_lock[s] = "free"
    /\ IF ~stream_logging[s]
       THEN /\ Finish(t, "AttributeError")
            /\ UNCHANGED <<add_arg, stream_ident, stream_logging,
                           other_list_stream>>
       ELSE IF InSeq(other_list_stream, s)
       THEN /\ other_list_stream' = Remove(other_list_stream, s)
            /\ stream_logging' = [stream_logging EXCEPT ![s] = FALSE]
            /\ stream_ident' = [stream_ident EXCEPT ![s] = IDENT_EMPTY]
            /\ Finish(t, "ok")
            /\ add_arg' = add_arg
       ELSE /\ add_arg' = [add_arg EXCEPT ![t] = [ident |-> stream_ident[s],
                                                  stream |-> "none"]]
            /\ pc' = [pc EXCEPT ![t] = "del_enter"]
            /\ result' = [result EXCEPT ![t] = "ok"]
            /\ UNCHANGED <<stream_ident, stream_logging, other_list_stream>>
    /\ UNCHANGED <<rendering, level_map, engine, atomic_ident, async_event, lock_stream,
                   exception_count, stream_lock, call_arg, unit, idx, history>>

\* `with self._lock_stream:` of the del_stream that disassociate() called.
del_enter(t) ==
    /\ pc[t] = "del_enter"
    /\ lock_stream = "free"
    /\ lock_stream' = t
    /\ pc' = [pc EXCEPT ![t] = "del_scan"]
    /\ UNCHANGED <<rendering, level_map, engine, atomic_ident, async_event, streams, locals, result,
                   history>>

\* The positions of _list_stream whose stream holds the ident, and the
\* streams whose ident the loop reads: all up to the first match.
Found(ident) == {i \in DOMAIN list_stream : stream_ident[list_stream[i]] = ident}
First(S) == CHOOSE i \in S : \A j \in S : i <= j
Scanned(ident) ==
    {list_stream[i] : i \in {k \in DOMAIN list_stream :
                                \A j \in Found(ident) : k <= j}}

\* The body of del_stream under _lock_stream.  The loop reads stream.ident
\* (under each stream's lock); the first stream with the ident is entered in
\* the pending-remove map, and stream.disassociate(True) calls
\* del_stream_verify, which removes it from the list and the map, and then
\* clears the stream's engine and ident under the stream's lock.  Without a
\* match OutputStreamNotExist is raised.
del_scan(t) ==
    /\ pc[t] = "del_scan"
    /\ lock_stream = t
    /\ LET ident == add_arg[t].ident
           found == Found(ident)
       IN /\ \A s \in Scanned(ident) : stream_lock[s] \in {"free", t}
          /\ IF found = {}
             THEN /\ Finish(t, "OutputStreamNotExist")
                  /\ UNCHANGED <<list_stream, stream_ident, stream_logging>>
             ELSE LET s == list_stream[First(found)]
                  IN /\ list_stream' = Remove(list_stream, s)
                     /\ stream_logging' = [stream_logging EXCEPT ![s] = FALSE]
                     /\ stream_ident' = [stream_ident EXCEPT ![s] = IDENT_EMPTY]
                     /\ Finish(t, "ok")
    /\ lock_stream' = "free"
    /\ add_arg' = [add_arg EXCEPT ![t] = NoAdd]
    /\ UNCHANGED <<rendering, level_map, level, log_format, is_paused, is_closed, is_async, list_message,
                   unverified_stream_add, unverified_stream_del, atomic_ident,
                   async_event, exception_count, stream_lock, other_list_stream,
                   call_arg, unit, idx, history>>

\* ------------------------------------------------------- the level table
\* utils.add_log_level(level, alias, name): the level must be an int in
\* [ALL, OFF]; then, under _state.lock, the alias must be new, and the
\* LevelDetails is stored (a dict keeps insertion order).
\* An add_log_level without the test `alias in _state.level_map`.
add_log_level_any_alias(t, lv, alias, name) ==
    /\ pc[t] = "idle"
    /\ IF lv.kind # "int" \/ ~(ALL <= lv.num /\ lv.num <= OFF)
       THEN /\ Finish(t, "LogLevelInvalid")
            /\ level_map' = level_map
       ELSE /\ Finish(t, "ok")
            /\ level_map' = Append(level_map, [alias |-> alias, level |-> lv.num,
                                               name |-> name])
    /\ UNCHANGED <<engine, atomic_ident, async_event, lock_stream, streams,
                   locals, history, rendering>>

add_log_level(t, lv, alias, name) ==
    /\ pc[t] = "idle"
    /\ IF lv.kind # "int" \/ ~(ALL <= lv.num /\ lv.num <= OFF)
       THEN /\ Finish(t, "LogLevelInvalid")
            /\ level_map' = level_map
       ELSE IF \E i \in DOMAIN level_map : level_map[i].alias = alias
       THEN /\ Finish(t, "LogLevelAliasExists")
            /\ level_map' = level_map
       ELSE /\ Finish(t, "ok")
            /\ level_map' = Append(level_map, [alias |-> alias, level |-> lv.num,
                                               name |-> name])
    /\ UNCHANGED <<engine, atomic_ident, async_event, lock_stream, streams,
                   locals, history, rendering>>

\* utils.del_log_level(alias), under _state.lock.
\* A del_log_level that also drops the queued records of the deleted level.
del_log_level_drops_records(t, alias) ==
    /\ pc[t] = "idle"
    /\ IF \E i \in DOMAIN level_map : level_map[i].alias = alias
       THEN /\ Finish(t, "ok")
            /\ level_map' = SelectSeq(level_map, LAMBDA d : d.alias # alias)
            /\ list_message' =
                  SelectSeq(list_message,
                            LAMBDA u : \E i \in DOMAIN level_map :
                                          /\ level_map[i].alias # alias
                                          /\ level_map[i].name = u.name)
       ELSE /\ Finish(t, "LogLevelAliasNotExists")
            /\ UNCHANGED <<level_map, list_message>>
    /\ UNCHANGED <<level, log_format, is_paused, is_closed, is_async, list_stream,
                   unverified_stream_add, unverified_stream_del,
                   atomic_ident, async_event, lock_stream, streams,
                   locals, history, rendering>>

del_log_level(t, alias) ==
    /\ pc[t] = "idle"
    /\ IF \E i \in DOMAIN level_map : level_map[i].alias = alias
       THEN /\ Finish(t, "ok")
            /\ level_map' = SelectSeq(level_map, LAMBDA d : d.alias # alias)
       ELSE /\ Finish(t, "LogLevelAliasNotExists")
            /\ level_map' = level_map
    /\ UNCHANGED <<engine, atomic_ident, async_event, lock_stream, streams,
                   locals, history, rendering>>

\* ---------------------------------------------------- the second engine
\* add_stream(s) on another Logging engine of the process, as one step:
\* its standard-stream check, an ident from the shared counter, and
\* stream.associate under the stream's lock, which refuses an associated
\* stream and otherwise has add_stream_verify append the stream to that
\* engine's list and takes the engine and the ident.
other_add_stream(t, s) ==
    /\ pc[t] = "idle"
    /\ stream_lock[s] = "free"
    /\ atomic_ident + IdentsToCome < MaxIdent
    /\ IF /\ StreamType(s) = STANDARD
          /\ \E i \in DOMAIN other_list_stream :
                 StreamType(other_list_stream[i]) = STANDARD
       THEN /\ Finish(t, "StreamVerificationFailed")
            /\ UNCHANGED <<atomic_ident, other_list_stream, stream_ident,
                           stream_logging>>
       ELSE /\ atomic_ident' = atomic_ident + 1
            /\ IF is_associated(s)
               THEN /\ Finish(t, "NameError")
                    /\ UNCHANGED <<other_list_stream, stream_ident, stream_logging>>
               ELSE /\ other_list_stream' = Append(other_list_stream, s)
                    /\ stream_logging' = [stream_logging EXCEPT ![s] = TRUE]
                    /\ stream_ident' = [stream_ident EXCEPT ![s] = atomic_ident]
                    /\ Finish(t, "ok")
    /\ UNCHANGED <<rendering, level_map, engine, async_event, lock_stream, exception_count, stream_lock,
                   locals, history>>

\* ------------------------------------------------- steps of every thread
\* __try_call_stream on thread t; the streams raise as Raises allows.
DrainStep(t, Raises) ==
    \/ drain_pop(t)
    \/ drain_lock(t)
    \/ \E raises \in Raises : drain_stream(t, raises)
    \/ drain_unlock(t)

WorkerStep ==
    \/ worker_wait
    \/ worker_clear
    \/ worker_check_paused
    \/ worker_check_closed

\* Thread t1 only logs; t2 logs and administers the engine.
Admin == {"t2"}
Solo == {"t1"}

\* The engine with at least the constructor's standard stream registered.
InitStdout == Init /\ list_stream # << >>

\* ------------------------------------------------------------------ Spec
\* The delivery pipeline under concurrency: both caller threads log (and in
\* asynchronous mode the worker delivers) while t2 pauses, unpauses and
\* changes the threshold.  Every stream.call may raise.
Next ==
    \/ \E t \in Admin, lv \in {Alias("debug"), Num(INFO)} : set_level(t, lv)
    \/ \E t \in Admin : pause(t)
    \/ \E t \in Admin : unpause(t)
    \/ \E t \in Callers, lv \in {Alias("debug"), Alias("info")} : call_enter(t, lv)
    \/ \E t \in Callers : call_build(t)
    \/ \E t \in Callers : call_paused(t)
    \/ \E t \in Threads : DrainStep(t, BOOLEAN)
    \/ WorkerStep

Spec == InitStdout /\ [][Next]_vars

\* -------------------------------------------------------------- SpecSolo
\* One caller thread using the engine sequentially, in either mode: it
\* logs, pauses, unpauses, changes the threshold, clears the queue and
\* closes the engine; in asynchronous mode the worker runs beside it.
NextSolo ==
    \/ \E t \in Solo, lv \in {Alias("debug"), Num(INFO)} : set_level(t, lv)
    \/ \E t \in Solo : pause(t)
    \/ \E t \in Solo : unpause(t)
    \/ \E t \in Solo : close_enter(t)
    \/ \E t \in Solo : close_set(t)
    \/ \E t \in Solo : clear_message(t)
    \/ \E t \in Solo, lv \in {Alias("debug"), Alias("info")} : call_enter(t, lv)
    \/ \E t \in Solo : call_build(t)
    \/ \E t \in Solo : call_paused(t)
    \/ \E t \in Solo \cup {Worker} : DrainStep(t, BOOLEAN)
    \/ WorkerStep

SpecSolo == InitStdout /\ [][NextSolo]_vars

\* --------------------------------------------------------------- SpecApi
\* One caller thread invoking every mutating operation of the engine, in
\* either mode; the streams do not raise.  The thread logs MaxApiCalls
\* records (and may go on calling call() once the engine is closed).
NextApi ==
    \/ \E t \in Solo, lv \in {Alias("debug"), Num(INFO)} : set_level(t, lv)
    \/ \E t \in Solo, f \in Formats : set_format(t, f, TRUE)
    \/ \E t \in Solo : pause(t)
    \/ \E t \in Solo : unpause(t)
    \/ \E t \in Solo : close_enter(t)
    \/ \E t \in Solo : close_set(t)
    \/ \E t \in Solo : /\ close_check \/ Len(calls) < MaxApiCalls
                       /\ call_enter(t, Alias("info"))
    \/ \E t \in Solo : call_build(t)
    \/ \E t \in Solo : call_paused(t)
    \/ \E t \in Solo : add_stream(t, "file1")
    \/ \E t \in Solo : associate(t)
    \/ \E t \in Solo : associate_verify(t)
    \/ \E t \in Solo : associate_set(t)
    \/ \E t \in Solo, ident \in 0..(MaxIdent - 1) : del_stream(t, ident)
    \/ \E t \in Solo : del_scan(t)
    \/ \E t \in Solo \cup {Worker} : DrainStep(t, {FALSE})
    \/ WorkerStep

\* The engine as constructed by default: the standard stream only.
InitApi == Init /\ Len(list_stream) = 1

SpecApi == InitApi /\ [][NextApi]_vars

\* --------------------------------------------------------------- SpecReg
\* The registration protocol under concurrency: both caller threads add
\* and remove streams on the engine, call stream.associate and
\* stream.disassociate themselves, and add streams to the second engine;
\* with or without the constructor's standard stream.  The streams are the
\* two standard ones; nothing is logged, so the engine is a synchronous one.
Idents == 0..(MaxIdent - 1)
RegStreams == {"std1", "std2"}

NextReg ==
    \/ \E t \in Callers, s \in RegStreams : add_stream(t, s)
    \/ \E t \in Callers, s \in RegStreams, ident \in Idents \cup {IDENT_EMPTY} :
           associate_call(t, s, ident)
    \/ \E t \in Callers : associate(t)
    \/ \E t \in Callers : add_stream_nested(t)
    \/ \E t \in Callers : associate_verify(t)
    \/ \E t \in Callers : associate_set(t)
    \/ \E t \in Callers, ident \in Idents : del_stream(t, ident)
    \/ \E t \in Callers, s \in RegStreams : disassociate(t, s)
    \/ \E t \in Callers : del_enter(t)
    \/ \E t \in Callers : del_scan(t)
    \/ \E t \in Callers, s \in RegStreams : other_add_stream(t, s)

\* The engine as constructed, with or without the standard stream.
InitReg == Init /\ Len(list_stream) <= 1 /\ ~is_async

SpecReg == InitReg /\ [][NextReg]_vars

\* -------------------------------------------------------------- SpecLock
\* Logging and registration together: t1 logs, pauses, unpauses, sets the
\* level and the format (to the values they have, the threshold playing no
\* part in the locking) and closes the engine, while t2 adds and removes
\* the standard and the file stream, through the engine or through the
\* stream; the deliveries run on t1 or, in asynchronous mode, on the
\* worker.  The streams do not raise; FileOutputStream.call takes the
\* stream's lock.
LockStreams == {"std1", "file1"}

NextLock ==
    \/ \E t \in Solo, lv \in {Num(INFO)} : set_level(t, lv)
    \/ \E t \in Solo, f \in {FORMAT_DEFAULT} : set_format(t, f, TRUE)
    \/ \E t \in Solo : pause(t)
    \/ \E t \in Solo : unpause(t)
    \/ \E t \in Solo : close_enter(t)
    \/ \E t \in Solo : close_set(t)
    \/ \E t \in Solo : /\ close_check \/ Len(calls) < MaxApiCalls
                       /\ call_enter(t, Alias("info"))
    \/ \E t \in Solo : call_build(t)
    \/ \E t \in Solo : call_paused(t)
    \/ \E t \in Admin, s \in LockStreams : add_stream(t, s)
    \/ \E t \in Admin, s \in LockStreams : associate_call(t, s, IDENT_EMPTY)
    \/ \E t \in Admin : associate(t)
    \/ \E t \in Admin : add_stream_nested(t)
    \/ \E t \in Admin : associate_verify(t)
    \/ \E t \in Admin : associate_set(t)
    \/ \E t \in Admin, ident \in Idents : del_stream(t, ident)
    \/ \E t \in Admin, s \in LockStreams : disassociate(t, s)
    \/ \E t \in Admin : del_enter(t)
    \/ \E t \in Admin : del_scan(t)
    \/ \E t \in Solo \cup {Worker} : DrainStep(t, {FALSE})
    \/ WorkerStep

\* The engine as constructed by default, in either mode.
InitLock == Init /\ Len(list_stream) = 1

SpecLock == InitLock /\ [][NextLock]_vars

\* -------------------------------------------------------------- SpecLive
\* The asynchronous engine that is never paused or closed: both callers
\* log, t2 changes the threshold, and the worker delivers to streams that
\* return.  The worker is scheduled fairly, and so is a caller that is
\* inside call(), which therefore reaches its __spark.
NextLive ==
    \/ \E t \in Admin, lv \in {Alias("debug"), Num(INFO)} : set_level(t, lv)
    \/ \E t \in Callers, lv \in {Alias("debug"), Alias("info")} : call_enter(t, lv)
    \/ \E t \in Callers : call_build(t)
    \/ \E t \in Callers : call_paused(t)
    \/ DrainStep(Worker, {FALSE})
    \/ WorkerStep

InitLive == Init /\ is_async /\ list_stream # << >>

SpecLive ==
    /\ InitLive
    /\ [][NextLive]_vars
    /\ WF_vars(WorkerStep \/ DrainStep(Worker, {FALSE}))
    /\ \A t \in Callers : WF_vars(call_build(t) \/ call_paused(t))

\* ------------------------------------------------------------- SpecClose
\* The asynchronous engine used by one thread that logs, pauses, unpauses
\* and closes it.  The worker is scheduled fairly, and so is the caller
\* inside call() and close(), which therefore return.
NextClose ==
    \/ \E t \in Solo : pause(t)
    \/ \E t \in Solo : unpause(t)
    \/ \E t \in Solo : close_enter(t)
    \/ \E t \in Solo : close_set(t)
    \/ \E t \in Solo : /\ close_check \/ Len(calls) < MaxApiCalls
                       /\ call_enter(t, Alias("info"))
    \/ \E t \in Solo : call_build(t)
    \/ \E t \in Solo : call_paused(t)
    \/ DrainStep(Worker, {FALSE})
    \/ WorkerStep

SpecClose ==
    /\ InitLive
    /\ [][NextClose]_vars
    /\ WF_vars(WorkerStep \/ DrainStep(Worker, {FALSE}))
    /\ \A t \in Solo : WF_vars(call_build(t) \/ call_paused(t) \/ close_set(t))

\* One thread configuring a synchronous engine and logging through it: every
\* kind of level reference is given to set_level and call, formats with and
\* without the message field to set_format, and levels are added to and
\* deleted from the table while records wait in a paused engine.
LevelRefs ==
    {Alias("debug"), Alias("verbose"), Alias("nope"),
     Num(INFO), Num(5), Num(OFF + 1), Num(ALL - 1), Other}
BackCounts ==
    {BackCount(0), BackCount(-1), NotAnInt, BackCount(1), BackCount(MaxDepth)}
NextConfig ==
    \/ \E t \in Solo, lv \in LevelRefs : set_level(t, lv)
    \/ \E t \in Solo, f \in {FORMAT_SIMPLE, FORMAT_LEVEL_ONLY}, isstr \in BOOLEAN :
          set_format(t, f, isstr)
    \/ \E t \in Solo : pause(t)
    \/ \E t \in Solo : unpause(t)
    \/ \E t \in Solo, lv \in {Num(5), Num(DEBUG), Num(OFF + 1), Other},
          alias \in {"verbose", "info"} : add_log_level(t, lv, alias, "VERBOSE")
    \/ \E t \in Solo, alias \in {"verbose", "debug", "nope"} : del_log_level(t, alias)
    \/ \E t \in Solo, lv \in {Alias("info"), Alias("verbose"), Alias("nope"),
                                Num(5), Num(INFO)}, b \in BackCounts :
          /\ Len(calls) < MaxApiCalls
          /\ call_enter(t, Back(lv, b))
    \/ \E t \in Solo : call_build(t)
    \/ \E t \in Solo : call_paused(t)
    \/ \E t \in Solo : DrainStep(t, {FALSE})

InitConfig == Init /\ ~is_async /\ Len(list_stream) = 1

SpecConfig == InitConfig /\ [][NextConfig]_vars

\* The rendering of one record by a stream: the format, the message and the
\* arguments of the call are drawn from formats and messages with fields
\* that exist, fields that are missing, positional fields with and without
\* an argument, both numberings in one string, and as many unfilled
\* positional fields as secure_format corrects, one more and two more.
Autos(n) == [i \in 1..n |-> Auto]
LogFormats ==
    {FORMAT_DEFAULT, FORMAT_SIMPLE,
     << Key("nofield"), Lit(" "), Key("message") >>,
     << Idx(0), Lit(" "), Key("message") >>,
     << Auto, Lit(" "), Key("message") >>}
Messages ==
    {<< Lit("m") >>, << Auto >>, << Idx(1) >>, << Idx(2), Idx(0) >>,
     << Key("user") >>, << Key("user"), Auto >>, << Key("mark") >>,
     << Auto, Lit(" "), Idx(0) >>,
     Autos(SECURE_FORMAT_MAXIMUM_NUMBER_OF_CORRECTIONS),
     Autos(SECURE_FORMAT_MAXIMUM_NUMBER_OF_CORRECTIONS + 1),
     Autos(SECURE_FORMAT_MAXIMUM_NUMBER_OF_CORRECTIONS + 2)}
LogUnits ==
    [args : {<< >>, << Str(<< Lit("a") >>) >>},
     message : Messages, level_name : {"INFO"},
     kwargs : {<< >>, << [key |-> "user", val |-> Str(<< Lit("u") >>)] >>},
     format : LogFormats]

NextFormat == render

InitFormat == \E u \in LogUnits : InitLogging(u) /\ ~is_async /\ Len(list_stream) = 1

SpecFormat == InitFormat /\ [][NextFormat]_vars

\* ------------------------------------------------------------ SpecDeliver
\* An engine with two streams delivering the records of one thread while
\* another thread changes the format.
NextDeliver ==
    \/ \E t \in Admin, f \in Formats : set_format(t, f, TRUE)
    \/ \E t \in Solo : call_enter(t, Alias("info"))
    \/ \E t \in Solo : call_build(t)
    \/ \E t \in Solo : call_paused(t)
    \/ \E t \in Solo \cup {Worker} : DrainStep(t, {FALSE})
    \/ WorkerStep

InitDeliver == Init /\ Len(list_stream) = 2

SpecDeliver == InitDeliver /\ [][NextDeliver]_vars

\* ---------------------------------------------------------- SpecCloseRace
\* One thread logs while another closes the engine, in either mode.
NextCloseRace ==
    \/ \E t \in Admin : close_enter(t)
    \/ \E t \in Admin : close_set(t)
    \/ \E t \in Solo, lv \in {Alias("debug"), Alias("info")} : call_enter(t, lv)
    \/ \E t \in Solo : call_build(t)
    \/ \E t \in Solo : call_paused(t)
    \/ \E t \in Solo \cup {Worker} : DrainStep(t, {FALSE})
    \/ WorkerStep

InitCloseRace == Init /\ list_stream # << >>

SpecCloseRace == InitCloseRace /\ [][NextCloseRace]_vars

\* ------------------------------------------------------------- SpecClear
\* One thread logs while another clears the queue, pauses and unpauses, in
\* either mode; the streams do not raise and the threshold stays put.
NextClear ==
    \/ \E t \in Admin : clear_message(t)
    \/ \E t \in Admin : pause(t)
    \/ \E t \in Admin : unpause(t)
    \/ \E t \in Solo, lv \in {Alias("debug"), Alias("info")} : call_enter(t, lv)
    \/ \E t \in Solo : call_build(t)
    \/ \E t \in Solo : call_paused(t)
    \/ \E t \in Threads : DrainStep(t, {FALSE})
    \/ WorkerStep

InitClear == Init /\ list_stream # << >>

SpecClear == InitClear /\ [][NextClear]_vars

\* ============================================ logging_main.Logging (legacy)
\* The earlier engine in asynchronous mode, as constructed with one output
\* object.  Contents are numbered in append order.  __call_lock is an RLock:
\* the producers and the worker's own blocks hold it within one step, and
\* the worker keeps it from its first recursive __try_op_call_asynchronous
\* until the recursion unwinds.

\* call() on an open engine with a level that passes the filter, up to
\* __run_call_asynchronous's `with self.__call_lock: append(content)`.
run_call_asynchronous(t) ==
    /\ main_pc[t] = "idle"
    /\ appended < MaxMainCalls
    /\ call_lock = "free"
    /\ message_list' = Append(message_list, appended + 1)
    /\ appended' = appended + 1
    /\ main_pc' = [main_pc EXCEPT ![t] = "set"]
    /\ UNCHANGED <<logging, call_event, call_lock, op_content, op_received>>

\* self.__call_event.set(), after the lock is released.
call_event_set(t) ==
    /\ main_pc[t] = "set"
    /\ call_event' = TRUE
    /\ main_pc' = [main_pc EXCEPT ![t] = "idle"]
    /\ UNCHANGED <<logging, message_list, call_lock, op_content, op_received, appended>>

\* self.__call_event.wait() in __async_mainloop.
async_mainloop_wait ==
    /\ main_pc[Worker] = "wait"
    /\ call_event
    /\ main_pc' = [main_pc EXCEPT ![Worker] = "take"]
    /\ UNCHANGED <<logging, message_list, call_event, call_lock, op_content, op_received,
                   appended>>

\* First block of __try_op_call_asynchronous: return when the list is empty
\* (which unwinds every recursive call and releases the lock), else take
\* the first content out.
try_op_call_asynchronous_take ==
    /\ main_pc[Worker] = "take"
    /\ call_lock \in {"free", Worker}
    /\ IF message_list = << >>
       THEN /\ main_pc' = [main_pc EXCEPT ![Worker] = "clear"]
            /\ call_lock' = "free"
            /\ UNCHANGED <<message_list, op_content>>
       ELSE /\ op_content' = Head(message_list)
            /\ message_list' = Tail(message_list)
            /\ main_pc' = [main_pc EXCEPT ![Worker] = "try_op_call"]
            /\ call_lock' = call_lock
    /\ UNCHANGED <<logging, call_event, op_received, appended>>

\* __try_op_call(content): every output object of the list is called with
\* the content; what a call raises is swallowed.
try_op_call ==
    /\ main_pc[Worker] = "try_op_call"
    /\ call_lock \in {"free", Worker}
    /\ op_received' = Append(op_received, op_content)
    /\ op_content' = 0
    /\ main_pc' = [main_pc EXCEPT ![Worker] = "again"]
    /\ UNCHANGED <<logging, message_list, call_event, call_lock, appended>>

\* Last block of __try_op_call_asynchronous: return when the list is empty,
\* else call itself with the lock held.
try_op_call_asynchronous_again ==
    /\ main_pc[Worker] = "again"
    /\ call_lock \in {"free", Worker}
    /\ IF message_list = << >>
       THEN /\ main_pc' = [main_pc EXCEPT ![Worker] = "clear"]
            /\ call_lock' = "free"
       ELSE /\ main_pc' = [main_pc EXCEPT ![Worker] = "take"]
            /\ call_lock' = Worker
    /\ UNCHANGED <<logging, message_list, call_event, op_content, op_received, appended>>

\* self.__call_event.clear(), then `while not self.__asynchronous_stop`.
async_mainloop_clear ==
    /\ main_pc[Worker] = "clear"
    /\ call_event' = FALSE
    /\ main_pc' = [main_pc EXCEPT ![Worker] = "wait"]
    /\ UNCHANGED <<logging, message_list, call_lock, op_content, op_received, appended>>

async_mainloop ==
    \/ async_mainloop_wait
    \/ try_op_call_asynchronous_take
    \/ try_op_call
    \/ try_op_call_asynchronous_again
    \/ async_mainloop_clear

\* Both caller threads log through the legacy engine; its worker delivers.
NextMain ==
    \/ \E t \in Callers : run_call_asynchronous(t)
    \/ \E t \in Callers : call_event_set(t)
    \/ async_mainloop

InitMain == Init /\ is_async /\ Len(list_stream) = 1

\* The worker thread is scheduled fairly and a call() that has appended goes
\* on to set the event; nothing obliges a thread to start a call().
SpecMain ==
    /\ InitMain
    /\ [][NextMain]_vars
    /\ WF_vars(async_mainloop)
    /\ \A t \in Callers : WF_vars(call_event_set(t))

\* ================================================================ claims
\* The streams in the engine's list, and the threads that hold a popped unit.
Registered == {list_stream[i] : i \in DOMAIN list_stream}
Holders == {t \in Threads : pc[t] \in {"drain_lock", "drain_stream"}}
Held == {unit[t].id : t \in Holders}
Queued == {list_message[i].id : i \in DOMAIN list_message}
Count(q, x) == Cardinality({i \in DOMAIN q : q[i] = x})

\* C1: every registered stream receives the records in the order in which
\* call() appended them to the queue (units are numbered in append order),
\* under every interleaving of the callers and the worker.
C1_FifoDelivery ==
    \A s \in Streams : \A i, j \in DOMAIN received[s] :
        i < j => received[s][i] < received[s][j]

\* C2: while is_paused is true no stream's call is invoked: a step taken
\* in a paused state leaves what the streams have received unchanged.
C2_NoDeliveryWhilePaused == [][is_paused => received' = received]_vars

\* C3: in asynchronous mode the worker terminates only after the pending
\* queue is empty: when it has exited, no record is left in the queue.
C3_WorkerExitsAfterDrain == pc[Worker] = "exited" => list_message = << >>

\* C4: the engine's stream list holds at most one stream of type
\* "standard", also when add_stream is called concurrently.
C4_OneStandardStream ==
    Cardinality({i \in DOMAIN list_stream :
                    StreamType(list_stream[i]) = STANDARD}) <= 1

\* C5: a stream.call that raises during a drain is not propagated to the
\* thread that runs the drain, adds exactly one to that stream's
\* exception_count, and stops no other stream from receiving the record or
\* the later ones: outside a drain all streams have received the same
\* records, and inside one the streams already visited are one record ahead.
C5_FaultIsolation ==
    /\ \A t \in Threads : result[t] # "Exception"
    /\ pc[Worker] # "exited"
    /\ \A s \in Streams : exception_count[s] = failed[s]
    /\ lock_stream = "free" =>
           \A s1, s2 \in Registered : received[s1] = received[s2]
    /\ \A t \in Threads : pc[t] = "drain_stream" =>
           \A i, j \in DOMAIN list_stream :
               received[list_stream[i]] =
                   IF (i < idx[t]) = (j < idx[t])
                   THEN received[list_stream[j]]
                   ELSE IF i < idx[t]
                   THEN Append(received[list_stream[j]], unit[t].id)
                   ELSE SubSeq(received[list_stream[j]], 1,
                               Len(received[list_stream[j]]) - 1)

\* C5 witness: the first of two streams raised on both records, and the
\* second one received both.
C5_Witness ==
    /\ list_stream = << "std1", "file1" >>
    /\ exception_count["std1"] = 2
    /\ exception_count["file1"] = 0
    /\ Len(received["file1"]) = 2
    /\ \A t \in Callers : pc[t] = "idle" /\ result[t] = "ok"

\* C6: a call() whose level is below the threshold at the time of the call
\* never has its record passed to any stream, whatever follows it.
C6_BelowThresholdNeverDelivered ==
    \A s \in Streams : \A i \in DOMAIN received[s] :
        ~calls[received[s][i]].low

Taken == Held \cup UNION {{received[s][i] : i \in DOMAIN received[s]} : s \in Streams}

C8_NothingDeliveredBeforeUnpause ==
    \A s \in Streams : \A i \in DOMAIN received[s] :
        received[s][i] \notin pausedIds

\* The first step of an operation of thread t.
GuardedOp(t) ==
    \/ call_enter(t, Alias("info"))
    \/ close_enter(t)
UnguardedOp(t) ==
    \/ \E lv \in {Alias("debug"), Num(INFO)} : set_level(t, lv)
    \/ \E f \in Formats : set_format(t, f, TRUE)
    \/ pause(t)
    \/ unpause(t)
    \/ add_stream(t, "file1")
    \/ \E ident \in 0..(MaxIdent - 1) : del_stream(t, ident)
Refused(t) ==
    /\ result'[t] = "LoggingIsClosed"
    /\ UNCHANGED <<engine, atomic_ident, async_event, streams>>

\* C9 as stated: once the engine is closed, every call() and every mutating
\* operation raises LoggingIsClosed and changes no engine state.
C9_EveryOperationRefused ==
    [][\A t \in Solo :
          (is_closed /\ (GuardedOp(t) \/ UnguardedOp(t))) => Refused(t)]_vars

\* C9 as amended: once the engine is closed, every call() and every close()
\* raises LoggingIsClosed and changes no engine state (set_level,
\* set_format, pause, unpause, add_stream and del_stream are not guarded).
C9_CallAndCloseRefused ==
    [][\A t \in Solo : (is_closed /\ GuardedOp(t)) => Refused(t)]_vars

\* C9 witness: a call() or close() on the closed engine has raised.
C9_Witness == is_closed /\ result["t1"] = "LoggingIsClosed"

\* C10: once is_closed is true it is true in every later state.
C10_ClosedIsMonotonic == [][is_closed => is_closed']_vars

\* C10 witness: the engine is closed, not paused, holds a second stream,
\* and neither the caller nor the worker is inside an operation.
C10_Witness ==
    /\ is_closed
    /\ ~is_paused
    /\ Len(list_stream) = 2
    /\ pc["t1"] = "idle"
    /\ pc[Worker] \in {"exited", "none"}

\* C11: a stream enters the stream list only when add_stream_verify is
\* called for it with an ident that is pending for that same stream, and
\* the step then deletes the pending entry; add_stream_verify with an ident
\* that is not pending, or pending for another stream, fails and leaves the
\* list and the pending-add map unchanged.
C11_OnlyPendingStreamsEnter ==
    [][/\ Len(list_stream') > Len(list_stream) =>
              \E u \in Callers, p \in unverified_stream_add :
                  /\ pc[u] = "associate_verify"
                  /\ add_arg[u] = [ident |-> p[1], stream |-> p[2]]
                  /\ list_stream' = Append(list_stream, p[2])
                  /\ unverified_stream_add' = unverified_stream_add \ {p}
       /\ \A u \in Callers :
              (/\ associate_verify(u)
               /\ <<add_arg[u].ident, add_arg[u].stream>> \notin unverified_stream_add)
              => /\ result'[u] = InvalidIdent
                 /\ list_stream' = list_stream
                 /\ unverified_stream_add' = unverified_stream_add]_vars

\* C11 witness: ident 0 is pending for std1 and nothing has been registered
\* yet, and a verification by thread t2 (of another stream, or with another
\* ident) has failed.
C11_Witness ==
    /\ unverified_stream_add = {<<0, "std1">>}
    /\ atomic_ident = 1
    /\ list_stream = << >>
    /\ other_list_stream = << >>
    /\ result["t2"] = InvalidIdent
    /\ pc["t2"] = "idle"

\* C12: when a stream refuses the association of an add_stream (it is
\* already bound), the registration state stays consistent: no later step
\* registers the refused stream in this engine through the ident of the
\* failed attempt.
C12_RefusedIdentIsDead ==
    [][\A p \in refused :
          ~(/\ ~InSeq(list_stream, p[2])
            /\ list_stream' = Append(list_stream, p[2])
            /\ \E u \in Callers : add_arg[u] = [ident |-> p[1], stream |-> p[2]])]_vars

\* An add_stream(s), by the user or by s.associate(engine), of a standard
\* stream s while a standard stream is in the engine's list.
SecondStandard(t, s) ==
    /\ StreamType(s) = STANDARD
    /\ \E i \in DOMAIN list_stream : StreamType(list_stream[i]) = STANDARD
    /\ \/ add_stream(t, s)
       \/ add_stream_nested(t) /\ add_arg[t].stream = s
RejectedUnchanged(t) ==
    /\ result'[t] = "StreamVerificationFailed"
    /\ UNCHANGED <<engine, atomic_ident>>

\* C13 as stated: add_stream(s) of a standard stream while a standard
\* stream is registered raises StreamVerificationFailed, changes neither
\* the stream list nor the pending-add map, and leaves s unassociated.
C13_SecondStandardLeftUnassociated ==
    [][\A t \in Callers, s \in RegStreams :
          SecondStandard(t, s) =>
              /\ RejectedUnchanged(t)
              /\ stream_ident'[s] = IDENT_EMPTY
              /\ ~stream_logging'[s]]_vars

\* C13 as amended: add_stream(s) of a standard stream while a standard
\* stream is registered raises StreamVerificationFailed, changes neither
\* the stream list nor the pending-add map (and takes no ident), and leaves
\* the ident and the engine of s, and of every stream, as they were.
C13_SecondStandardRejected ==
    [][\A t \in Callers, s \in RegStreams :
          SecondStandard(t, s) =>
              /\ RejectedUnchanged(t)
              /\ UNCHANGED <<stream_ident, stream_logging>>]_vars

\* C13 witness: the constructor's standard stream is registered, no ident
\* has been taken since, std2 is unassociated and an add of it was rejected.
C13_Witness ==
    /\ list_stream = << "std1" >>
    /\ atomic_ident = 1
    /\ stream_ident["std2"] = IDENT_EMPTY
    /\ \E t \in Callers : pc[t] = "idle" /\ result[t] = "StreamVerificationFailed"

\* C14: the del_stream(ident) whose scan finds no stream with the ident
\* raises OutputStreamNotExist and changes nothing; the one that finds a
\* stream returns with the stream out of the list, nothing in the
\* pending-remove map and the stream unassociated.
C14_DelStream ==
    [][\A t \in Callers :
          del_scan(t) =>
              LET ident == add_arg[t].ident
                  held  == {s \in Streams : InSeq(list_stream, s)
                                            /\ stream_ident[s] = ident}
              IN IF held = {}
                 THEN /\ result'[t] = "OutputStreamNotExist"
                      /\ UNCHANGED <<engine, streams, atomic_ident>>
                 ELSE /\ result'[t] = "ok"
                      /\ \E s \in held :
                            /\ ~InSeq(list_stream', s)
                            /\ stream_ident'[s] = IDENT_EMPTY
                            /\ ~stream_logging'[s]
                            /\ Len(list_stream') = Len(list_stream) - 1
                      /\ unverified_stream_del' = {}]_vars

\* C14 witness: the constructor's standard stream (ident 0) was removed and
\* added again: it is registered with ident 1 and nothing is pending.
C14_Witness ==
    /\ list_stream = << "std1" >>
    /\ stream_ident["std1"] = 1
    /\ stream_logging["std1"]
    /\ unverified_stream_add = {}
    /\ unverified_stream_del = {}
    /\ refused = {}
    /\ other_list_stream = << >>
    /\ \A t \in Callers : pc[t] = "idle"

\* C15: a stream is in the list of at most one engine and at most once
\* there, and an add_stream whose stream.associate finds the stream
\* associated fails and registers nothing, on this engine and on the second
\* one, whatever the other thread is doing.
Occurrences(q, s) == Cardinality({i \in DOMAIN q : q[i] = s})
C15_OneEngineOnce ==
    [][/\ \A s \in Streams :
              Occurrences(list_stream', s) + Occurrences(other_list_stream', s) <= 1
       /\ \A t \in Callers, s \in RegStreams :
              (/\ stream_logging[s] \/ stream_ident[s] # IDENT_EMPTY
               /\ \/ associate(t) /\ pc[t] = "associate" /\ add_arg[t].stream = s
                  \/ other_add_stream(t, s))
              => /\ result'[t] # "ok"
                 /\ pc'[t] = "idle"
                 /\ UNCHANGED <<list_stream, other_list_stream, stream_ident,
                                stream_logging>>]_vars

\* C15 witness: std1 is registered on the second engine while an
\* add_stream(std1) on this engine was under way, which was then refused.
C15_Witness ==
    /\ InSeq(other_list_stream, "std1")
    /\ list_stream = << >>
    /\ \E i \in Idents : <<i, "std1">> \in refused

\* C17: every stream.call is made on a stream that is in the engine's
\* stream list, before and after the call, and the list does not change
\* while a thread is inside the loop over the streams: a stream that is
\* only pending, or that del_stream has removed, is never called.
C17_OnlyRegisteredStreamsCalled ==
    [][/\ \A s \in Streams :
              received'[s] # received[s]
              => /\ InSeq(list_stream, s)
                 /\ InSeq(list_stream', s)
                 /\ \E t \in Threads : pc[t] = "drain_stream" /\ lock_stream = t
       /\ \A t \in Threads :
              pc[t] = "drain_stream" => list_stream' = list_stream]_vars

\* C17 witness: the constructor's standard stream was removed and the file
\* stream added before record 1 was delivered by the worker: the record
\* went to the file stream and not to the removed stream.
C17_Witness ==
    /\ is_async
    /\ list_stream = << "file1" >>
    /\ received["file1"] = << 1 >>
    /\ received["std1"] = << >>
    /\ stream_ident["std1"] = IDENT_EMPTY
    /\ stream_ident["file1"] = 1

\* The threads that hold the lock thread t is about to take: the stream's
\* lock at the start of stream.associate, _lock_stream inside
\* stream.associate, at the start of del_stream and of the loop over the
\* streams, and the locks of the streams whose ident del_stream reads or
\* whose call takes the stream's lock.
Blockers(t) ==
    LET owners ==
            IF pc[t] \in {"associate", "associate_user"}
            THEN {stream_lock[add_arg[t].stream]}
            ELSE IF pc[t] \in {"add_nested", "associate_verify", "del_enter",
                               "drain_lock"}
            THEN {lock_stream}
            ELSE IF pc[t] = "del_scan"
            THEN {stream_lock[s] : s \in Scanned(add_arg[t].ident)}
            ELSE IF pc[t] = "drain_stream" /\ idx[t] <= Len(list_stream)
            THEN {stream_lock[s] : s \in {x \in {list_stream[idx[t]]} :
                                             NeedsStreamLock(x, FALSE)}}
            ELSE {}
    IN owners \ {"free", t}
Deadlocked ==
    \E D \in SUBSET Threads :
        /\ D # {}
        /\ \A t \in D : Blockers(t) \cap D # {}

\* Thread u holds _lock_stream and takes the lock of stream s next.
TakesStreamLockInside(u, s) ==
    /\ lock_stream = u
    /\ \/ /\ pc[u] = "drain_stream"
          /\ idx[u] <= Len(list_stream)
          /\ list_stream[idx[u]] = s
          /\ NeedsStreamLock(s, FALSE)
       \/ /\ pc[u] = "del_scan"
          /\ s \in Scanned(add_arg[u].ident)

\* C18 as stated: no deadlock is reached, and no thread takes a stream's
\* lock inside _lock_stream when another thread has taken _lock_stream
\* inside that stream's lock (the two locks are never acquired in
\* conflicting orders by two threads).
C18_NoConflictingLockOrder ==
    /\ ~Deadlocked
    /\ \A p \in nested, u \in Threads :
           u # p[1] => ~TakesStreamLockInside(u, p[2])

\* C18 as amended: no set of threads is ever waiting in a cycle for the
\* stream locks and _lock_stream that the others hold.
C18_NoDeadlock == ~Deadlocked

\* C18 witness: t2 is inside stream.associate of the file stream, holding
\* the stream's lock and waiting for _lock_stream, which a thread that is
\* delivering a record holds.
C18_Witness ==
    /\ pc["t2"] = "associate_verify"
    /\ stream_lock["file1"] = "t2"
    /\ \E u \in Threads \ {"t2"} : lock_stream = u /\ pc[u] = "drain_stream"
    /\ Blockers("t2") # {}

\* C19: in asynchronous mode no caller thread is ever inside
\* __try_call_stream: call() and unpause() end after the append and the
\* event's set, and whoever invokes stream.call is the worker.
C19_CallersNeverDeliver ==
    is_async =>
        /\ \A t \in Callers : pc[t] \in {"idle", "call_build", "call_paused"}
        /\ \A t \in Threads : pc[t] \in {"drain_pop", "drain_lock", "drain_stream"}
                              => t = Worker

\* C19 witness: in asynchronous mode record 1 was appended while the engine
\* was paused and has been delivered since, both callers being back in
\* their own code.
C19_Witness ==
    /\ is_async
    /\ Len(calls) >= 1
    /\ calls[1].paused
    /\ ~is_paused
    /\ Count(received["std1"], 1) = 1
    /\ \A t \in Callers : pc[t] = "idle"

\* Record id is in the queue and was at or above the threshold when it was
\* appended; every registered stream has received it; the threshold is
\* above its level while it is still in the queue.
Accepted(id) ==
    /\ id \in Queued
    /\ ~calls[id].low
DeliveredToAll(id) == \A s \in Registered : Count(received[s], id) = 1
RaisedAbove(id) ==
    \E i \in DOMAIN list_message :
        list_message[i].id = id /\ list_message[i].level < level

\* C20 as stated: in asynchronous mode, the engine being neither paused nor
\* closed, every record appended at or above the threshold is eventually
\* delivered to all registered streams, with no further call().
C20_EveryRecordDelivered ==
    \A id \in 1..MaxCalls : Accepted(id) ~> DeliveredToAll(id)

\* C20 as amended: every such record is eventually delivered to all
\* registered streams, unless the threshold is raised above its level
\* before the worker takes it from the queue.
C20_NoLostWakeUp ==
    \A id \in 1..MaxCalls : Accepted(id) ~> (DeliveredToAll(id) \/ RaisedAbove(id))

\* C20 witness: every record the callers could append has been delivered
\* to all registered streams and the worker is waiting for its event again.
C20_Witness ==
    /\ Len(calls) = MaxCalls
    /\ \A id \in 1..MaxCalls : ~calls[id].low /\ DeliveredToAll(id)
    /\ list_message = << >>
    /\ pc[Worker] = "wait"
    /\ ~async_event

\* C21: in asynchronous mode, once close() has returned the worker
\* eventually terminates, whether or not the engine was paused when it was
\* closed.
C21_WorkerTerminatesAfterClose ==
    (is_closed /\ \A t \in Callers : pc[t] # "close_set") ~> (pc[Worker] = "exited")

\* C22: a call() whose level is below the threshold in force builds no
\* record and leaves the pending queue as it is.
C22_BelowThresholdIsNoOp ==
    [][\A t \in Callers :
          (/\ call_build(t)
           /\ level_details(call_arg[t]).ok
           /\ level_details(call_arg[t]).level < level)
          => /\ list_message' = list_message
             /\ received' = received]_vars

\* C23: set_format with a template that has no message placeholder fails
\* with the format-invalid error and leaves the active format as it was, so
\* that such a template is never stored.
HasMessage(f) == \E i \in DOMAIN f : f[i] = Key("message")
C23_FormatWithoutMessageRejected ==
    [][\A t \in Solo : \A f \in {FORMAT_SIMPLE, FORMAT_LEVEL_ONLY} :
          (set_format(t, f, TRUE) /\ ~HasMessage(f))
          => /\ result'[t] = "LogFormatInvalid"
             /\ log_format' = log_format]_vars

\* C24: set_level raises LogLevelInvalid for an integer outside [ALL, OFF]
\* and for a string that is no alias of the table, TypeError for what is
\* neither str nor int, leaving the threshold unchanged in these cases;
\* otherwise the threshold becomes the level the argument denotes.
KnownAlias(a) == \E i \in DOMAIN level_map : level_map[i].alias = a
LevelOf(a) == level_map[CHOOSE i \in DOMAIN level_map : level_map[i].alias = a].level
C24_SetLevelRaisesLevelInvalid ==
    [][\A t \in Solo : \A lv \in LevelRefs :
          set_level(t, lv)
          => IF \/ lv.kind = "int" /\ ~(ALL <= lv.num /\ lv.num <= OFF)
                \/ lv.kind = "str" /\ ~KnownAlias(lv.alias)
             THEN result'[t] = "LogLevelInvalid" /\ level' = level
             ELSE IF lv.kind \notin {"int", "str"}
             THEN result'[t] = "TypeError" /\ level' = level
             ELSE /\ result'[t] = "ok"
                  /\ level' = IF lv.kind = "str" THEN LevelOf(lv.alias) ELSE lv.num]_vars

\* C25: on an engine that is not closed, call() with a string that is no
\* alias of the table raises LogLevelAliasNotExists, and with an integer
\* that no entry has as its level LogLevelNotExists; the call ends there:
\* nothing is appended to the queue and no stream receives anything.  The
\* wrappers (trace .. fatal, get_custom_call) pass their alias to call().
KnownLevel(n) == \E i \in DOMAIN level_map : level_map[i].level = n
C25_UnknownLevelRaises ==
    [][\A t \in Callers :
          call_build(t)
          => /\ (call_arg[t].kind = "str" /\ ~KnownAlias(call_arg[t].alias))
                => /\ result'[t] = "LogLevelAliasNotExists"
                   /\ pc'[t] = "idle"
                   /\ list_message' = list_message
                   /\ received' = received
             /\ (call_arg[t].kind = "int" /\ ~KnownLevel(call_arg[t].num))
                => /\ result'[t] = "LogLevelNotExists"
                   /\ pc'[t] = "idle"
                   /\ list_message' = list_message
                   /\ received' = received]_vars
C25_Witness ==
    /\ result["t1"] = "LogLevelNotExists"
    /\ pc["t1"] = "idle"
    /\ calls = << >>
    /\ ~KnownLevel(5)
    /\ KnownAlias("verbose")

\* C26: add_log_level raises LogLevelInvalid when the level is not an
\* integer of [ALL, OFF] and LogLevelAliasExists when the alias is in the
\* table, and leaves the table unchanged; otherwise level_details of the
\* alias gives the level and the name just added, and a call() with the
\* alias (whose frame walk stays inside the stack) queues a record of that
\* level and name.  Two aliases of the table may have the same level.
NameOf(a) == level_map[CHOOSE i \in DOMAIN level_map : level_map[i].alias = a].name
C26_AddLogLevel ==
    [][/\ \A t \in Solo : \A lv \in {Num(5), Num(DEBUG), Num(OFF + 1), Other} :
          \A alias \in {"verbose", "info"} :
             add_log_level(t, lv, alias, "VERBOSE")
             => IF lv.kind # "int" \/ lv.num < ALL \/ lv.num > OFF
                THEN result'[t] = "LogLevelInvalid" /\ level_map' = level_map
                ELSE IF KnownAlias(alias)
                THEN result'[t] = "LogLevelAliasExists" /\ level_map' = level_map
                ELSE /\ result'[t] = "ok"
                     /\ level_details(Alias(alias))'
                           = [level |-> lv.num, name |-> "VERBOSE", ok |-> TRUE,
                              exc |-> "ok"]
       /\ \A t \in Solo :
             (/\ call_build(t)
              /\ call_arg[t].kind = "str" /\ KnownAlias(call_arg[t].alias)
              /\ result'[t] # "AttributeError")
             => /\ Len(list_message') = Len(list_message) + 1
                /\ list_message'[Len(list_message')].level = LevelOf(call_arg[t].alias)
                /\ list_message'[Len(list_message')].name = NameOf(call_arg[t].alias)]_vars
C26_Witness ==
    /\ \E i, j \in DOMAIN level_map :
          /\ level_map[i].alias = "debug"
          /\ level_map[j].alias = "verbose"
          /\ level_map[i].level = level_map[j].level
    /\ \E i \in DOMAIN list_message :
          list_message[i].name = "VERBOSE" /\ list_message[i].level = DEBUG

\* C27: del_log_level raises LogLevelAliasNotExists when the alias is not in
\* the table, and otherwise removes it, whatever is queued; a record keeps
\* the level and the display name it got in call() as long as it is queued
\* or being delivered, and the unit handed to the streams is the queued one.
InFlight == {list_message[i] : i \in DOMAIN list_message}
               \cup {unit[t] : t \in Holders}
C27_DelLogLevelKeepsRecords ==
    [][/\ \A t \in Solo : \A alias \in {"verbose", "debug", "nope"} :
             del_log_level(t, alias)
             => IF KnownAlias(alias)
                THEN /\ result'[t] = "ok"
                     /\ ~KnownAlias(alias)'
                     /\ list_message' = list_message
                     /\ unit' = unit
                ELSE /\ result'[t] = "LogLevelAliasNotExists"
                     /\ level_map' = level_map
       /\ \A t \in Solo :
             (drain_pop(t) /\ pc'[t] = "drain_lock") => unit'[t] = Head(list_message)
       /\ \A u \in InFlight : \A v \in InFlight' : u.id = v.id => u = v]_vars
C27_Witness ==
    /\ ~KnownAlias("verbose")
    /\ pc["t1"] = "drain_stream"
    /\ idx["t1"] = 2
    /\ unit["t1"].name = "VERBOSE"
    /\ unit["t1"].level = 5
    /\ received["std1"] = << unit["t1"].id >>
    /\ calls[1].paused

\* C28: rendering a record never raises; a field that is missing, or a
\* positional field without an argument, is left in the rendered string as
\* a placeholder while everything else is rendered; and secure_format makes
\* at most SECURE_FORMAT_MAXIMUM_NUMBER_OF_CORRECTIONS corrections.
\* Filled(spec, args, kw) is spec with every field that has a value
\* replaced by it and every other field left: "{name}" as it is, a
\* positional field as "{}".
Filled(spec, args, kw) ==
    LET pos(i) == IF spec[i].k = "auto"
                  THEN Cardinality({j \in 1..(i - 1) : spec[j].k = "auto"}) + 1
                  ELSE spec[i].n + 1
        piece(i) ==
            CASE spec[i].k = "lit" -> << spec[i] >>
              [] spec[i].k \in {"auto", "idx"} ->
                    IF pos(i) <= Len(args) THEN args[pos(i)].s ELSE << Auto >>
              [] spec[i].k = "key" ->
                    IF Has(kw, spec[i].v) THEN Get(kw, spec[i].v).s ELSE << spec[i] >>
    IN Cat([i \in DOMAIN spec |-> piece(i)], 1, Len(spec))
Rendered(u) ==
    Filled(Filled(u.format, << >>, asdict(u)), u.args, Update(asdict(u), u.kwargs))
\* Both numberings in one string, which str.format refuses.
Mixed(spec) ==
    /\ \E i \in DOMAIN spec : spec[i].k = "auto"
    /\ \E i \in DOMAIN spec : spec[i].k = "idx"
MixedUnit(u) == Mixed(u.format) \/ Mixed(Filled(u.format, << >>, asdict(u)))
C28_RenderingNeverFails ==
    content # NoContent
    => /\ content.raised = ""
       /\ content.corrections <= SECURE_FORMAT_MAXIMUM_NUMBER_OF_CORRECTIONS
       /\ ~MixedUnit(log_unit) => content.out = Rendered(log_unit)

\* What format_log_message returns: the rendered string as long as no
\* string mixes the numberings and the corrections stay within the cap, and
\* the format as it was given otherwise.
RenderedWithinTheCap ==
    (content # NoContent /\ ~MixedUnit(log_unit)
        /\ content.corrections <= SECURE_FORMAT_MAXIMUM_NUMBER_OF_CORRECTIONS)
    => content.out = Rendered(log_unit) /\ content.raised = ""
FormatReturnedBeyondTheCap ==
    (content # NoContent
        /\ (MixedUnit(log_unit) \/ content.corrections > SECURE_FORMAT_MAXIMUM_NUMBER_OF_CORRECTIONS))
    => content.out = log_unit.format /\ content.raised = ""

\* C29: a drain compares the record it pops with the threshold of that
\* moment: below it, the record leaves the queue and is handed to no
\* stream, whatever the threshold was when it was enqueued; at or above it,
\* the record is taken for delivery.
C29_DrainUsesCurrentThreshold ==
    [][\A t \in Threads :
          (drain_pop(t) /\ list_message # << >>)
          => /\ list_message' = Tail(list_message)
             /\ received' = received
             /\ IF Head(list_message).level < level
                THEN /\ unit' = unit
                     /\ pc'[t] = "drain_pop"
                     /\ Head(list_message).id \notin Held'
                ELSE /\ unit'[t] = Head(list_message)
                     /\ pc'[t] = "drain_lock"]_vars
\* A record that was at or above the threshold when it was enqueued, is
\* gone from the queue, is held by no thread and was received by no stream.
C29_Witness ==
    \E id \in 1..Len(calls) :
        /\ ~calls[id].low
        /\ id \notin Queued \cup Held
        /\ \A s \in Streams : \A i \in DOMAIN received[s] : received[s][i] # id
        /\ level = INFO
        /\ pc[Worker] = "drain_pop"

\* C30: while a drain is calling a stream, it does not hold _lock_stream
\* (it took a copy of the stream list and released it), so that no other
\* thread that is inside add_stream or del_stream and needs _lock_stream
\* has to wait for the stream to return.
InStreamCall(t) == pc[t] = "drain_stream" /\ idx[t] <= Len(list_stream)
NeedsRegistryLock(u) == pc[u] \in {"add_nested", "associate_verify", "del_enter"}
C30_RegistryLockFreeDuringDelivery ==
    \A t \in Threads : \A u \in Threads \ {t} :
        (InStreamCall(t) /\ NeedsRegistryLock(u)) => lock_stream # t

\* C31: while a drain is calling a stream, a call() of another thread that
\* is about to append its record can do so at once (the drain does not hold
\* _lock_message during delivery); and the queue only ever changes by an
\* append, by the removal of its head, or by being cleared.
C31_QueueLockFreeDuringDelivery ==
    /\ [](\A t \in Threads : \A u \in Callers \ {t} :
             (InStreamCall(t) /\ pc[u] = "call_build") => ENABLED call_build(u))
    /\ [][\/ list_message' = list_message
          \/ /\ Len(list_message') = Len(list_message) + 1
             /\ SubSeq(list_message', 1, Len(list_message)) = list_message
          \/ list_message # << >> /\ list_message' = Tail(list_message)
          \/ list_message' = << >>]_vars
C31_Witness ==
    /\ InStreamCall("t1")
    /\ unit["t1"].id = 1
    /\ pc["t2"] = "call_paused"
    /\ Queued = {2}

\* C32: in synchronous mode with one thread using the engine, when the
\* thread is back from an operation and the engine is not paused, as it is
\* when unpause() returns, the queue is empty and no record is held; and a
\* drain lets go of a record it took only after every registered stream
\* was called with it (the others were skipped by the threshold test).
Ids(q) == {q[i] : i \in DOMAIN q}
C32_UnpauseDrainsEverything ==
    /\ []((~is_async /\ ~is_paused /\ \A t \in Solo : pc[t] = "idle")
            => list_message = << >> /\ Held = {})
    /\ [][\A t \in Solo :
             (~is_async /\ drain_unlock(t))
             => \A s \in Registered : unit[t].id \in Ids(received'[s])]_vars
C32_Witness ==
    /\ ~is_async
    /\ ~is_paused
    /\ pc["t1"] = "idle"
    /\ Len(calls) = 2
    /\ calls[1].paused /\ calls[2].paused
    /\ calls[1].low /\ ~calls[2].low
    /\ list_message = << >>
    /\ \A s \in Registered : received[s] = << 2 >>

\* C33: a call() whose back_count leaves the caller's stack either records
\* at an existing frame (a record is appended) or fails with the call-depth
\* error and appends nothing; a back_count that is negative or not an int
\* is taken as 0, so that call() appends its record.
C33_CallDepthClampedOrRejected ==
    [][\A t \in Solo :
          (call_build(t) /\ level_details(call_arg[t]).ok)
          => /\ \/ list_message' # list_message
                \/ result'[t] = "InvalidCallDepth" /\ list_message' = list_message
             /\ (~call_arg[t].back.int \/ call_arg[t].back.n <= 0)
                => Len(list_message') = Len(list_message) + 1]_vars

\* C34: when no thread is inside an operation of the engine, in particular
\* inside add_stream or del_stream, the pending-add map and the
\* pending-remove map are empty, also after an add_stream or del_stream
\* that raised.
C34_PendingMapsEmptyAtRest ==
    (\A t \in Callers : pc[t] = "idle")
    => unverified_stream_add = {} /\ unverified_stream_del = {}

\* C35: a record is in the queue or held by one draining thread, never
\* both and never twice; once it has left the queue it does not come back;
\* and no stream is called twice with the same record, however many
\* threads drain at the same time.
Copies(id) ==
    Cardinality({i \in DOMAIN list_message : list_message[i].id = id})
        + Cardinality({t \in Holders : unit[t].id = id})
C35_EachRecordDeliveredOnce ==
    /\ [](\A id \in 1..Len(calls) :
             /\ Copies(id) <= 1
             /\ \A s \in Streams : Count(received[s], id) <= 1)
    /\ [][\A id \in 1..Len(calls) : id \notin Queued => id \notin Queued']_vars
C35_Witness ==
    /\ ~is_async
    /\ pc["t1"] = "drain_stream"
    /\ pc["t2"] = "drain_lock"
    /\ unit["t1"].id # unit["t2"].id
    /\ \E s \in Registered : received[s] = << unit["t1"].id >>

\* C36 as stated: all the streams called with one record are given the same
\* format.
C36_OneFormatPerRecord ==
    \A t \in Threads : Cardinality(call_format[t]) <= 1

\* C36 as amended: each stream is called with the format that is active at
\* the moment of its own call (so the streams called with one record get
\* different formats only when set_format ran between their calls).
C36_FormatReadPerStream ==
    [][\A t \in Threads :
          (\E raises \in BOOLEAN : drain_stream(t, raises))
          => call_format'[t] = call_format[t] \cup {log_format}]_vars
C36_Witness ==
    \E t \in Threads :
        /\ call_format[t] = {FORMAT_DEFAULT, FORMAT_SIMPLE}
        /\ idx[t] = 3
        /\ received["std1"] = << 1 >>
        /\ received["file1"] = << 1 >>

\* C37: once the engine is closed (close() has set the flag and returns),
\* no step appends a record to the queue, whatever the other threads were
\* doing when close() ran.
C37_NoAppendAfterClose ==
    [][is_closed => Len(list_message') <= Len(list_message)]_vars

\* C38: a clear_message() step empties the queue and changes neither the
\* stream list, the threshold, the format, the paused and closed flags nor
\* the record a drain in progress has already popped; every record it
\* removed is then nowhere (not queued, not held by a drain, not received),
\* and a record that is nowhere for a stream is never received by it later.
Gone(id, s) ==
    /\ id \in 1..Len(calls)
    /\ id \notin Queued
    /\ id \notin Held
    /\ id \notin Ids(received[s])
C38_ClearMessageDropsQueue ==
    /\ [][\A t \in Admin :
             clear_message(t)
             => /\ list_message' = << >>
                /\ \A id \in Queued : \A s \in Streams : Gone(id, s)'
                /\ UNCHANGED <<list_stream, level, log_format, is_paused, is_closed>>
                /\ UNCHANGED <<unit, idx, lock_stream, received>>
                /\ \A u \in Threads \ {t} : pc'[u] = pc[u]]_vars
    /\ [][\A id \in 1..MaxCalls : \A s \in Streams : Gone(id, s) => Gone(id, s)']_vars
\* The second record was cleared (it was not below the threshold and no
\* stream has it) while a drain holds the first one, popped before.
C38_Witness ==
    /\ Len(calls) = 2
    /\ ~calls[2].low
    /\ \A s \in Streams : Gone(2, s)
    /\ \E t \in Threads : pc[t] = "drain_stream" /\ unit[t].id = 1

\* C39: in the legacy asynchronous engine every content appended to the
\* message list is eventually passed to the output objects, with no further
\* call() needed.
C39_LegacyRecordEventuallyPassed ==
    \A id \in 1..MaxMainCalls :
        (id \in Ids(message_list)) ~> (id \in Ids(op_received))
====
